---------------------------- MODULE Spec2Model ----------------------------
(***************************************************************************)
(* A model of the sugester search backend: the intent classifier, the      *)
(* /search handler and the zero-results recovery cascade.                  *)
(*                                                                         *)
(* Text is a sequence of characters.  A character is a one-letter string;  *)
(* the Polish letters of the source's dictionaries are written as ASCII    *)
(* digraphs, each standing for ONE character:                              *)
(*   "o'" = o-acute, "a," = a-ogonek, "e," = e-ogonek, "l/" = l-stroke,    *)
(*   "s'" = s-acute, "z." = z-dot, and "O'", "A,", "E,", "L/", "S'", "Z."  *)
(*   their capitals.                                                       *)
(***************************************************************************)
EXTENDS Integers, Sequences, FiniteSets, TLC

(***************************************************************************)
(* Characters and the character classes of JavaScript regular expressions  *)
(***************************************************************************)
LowerLetters ==
  {"a","b","c","d","e","f","g","h","i","j","k","l","m",
   "n","o","p","q","r","s","t","u","v","w","x","y","z"}

UpperLetters ==
  {"A","B","C","D","E","F","G","H","I","J","K","L","M",
   "N","O","P","Q","R","S","T","U","V","W","X","Y","Z"}

Digits == {"0","1","2","3","4","5","6","7","8","9"}

\* \w : [A-Za-z0-9_]; the Polish letters are NOT word characters.
WordChars == LowerLetters \cup UpperLetters \cup Digits \cup {"_"}

\* \s
WhiteSpace == {" ", "\t", "\n"}

UpperOf ==
  [a |-> "A", b |-> "B", c |-> "C", d |-> "D", e |-> "E", f |-> "F", g |-> "G",
   h |-> "H", i |-> "I", j |-> "J", k |-> "K", l |-> "L", m |-> "M", n |-> "N",
   o |-> "O", p |-> "P", q |-> "Q", r |-> "R", s |-> "S", t |-> "T", u |-> "U",
   v |-> "V", w |-> "W", x |-> "X", y |-> "Y", z |-> "Z"]

LowerOf ==
  [A |-> "a", B |-> "b", C |-> "c", D |-> "d", E |-> "e", F |-> "f", G |-> "g",
   H |-> "h", I |-> "i", J |-> "j", K |-> "k", L |-> "l", M |-> "m", N |-> "n",
   O |-> "o", P |-> "p", Q |-> "q", R |-> "r", S |-> "s", T |-> "t", U |-> "u",
   V |-> "v", W |-> "w", X |-> "x", Y |-> "y", Z |-> "z"]

\* String.prototype.toUpperCase / toLowerCase on one character.
PolishLower == <<"o'", "a,", "e,", "l/", "s'", "z.">>
PolishUpper == <<"O'", "A,", "E,", "L/", "S'", "Z.">>

ToUpperChar(c) ==
  IF c \in LowerLetters THEN UpperOf[c]
  ELSE IF \E k \in 1..Len(PolishLower) : PolishLower[k] = c
       THEN PolishUpper[CHOOSE k \in 1..Len(PolishLower) : PolishLower[k] = c]
  ELSE c

ToLowerChar(c) ==
  IF c \in UpperLetters THEN LowerOf[c]
  ELSE IF \E k \in 1..Len(PolishUpper) : PolishUpper[k] = c
       THEN PolishLower[CHOOSE k \in 1..Len(PolishUpper) : PolishUpper[k] = c]
  ELSE c

toLowerCase(s) == [i \in 1..Len(s) |-> ToLowerChar(s[i])]


(***************************************************************************)
(* A backtracking regular-expression matcher with JavaScript's priorities. *)
(* A pattern is a record with a tag t:                                     *)
(*   set  : one character of the set cs                                    *)
(*   nset : one character not in the set cs                                *)
(*   seq  : a then b           alt : a, and on failure b                   *)
(*   star : greedy cs*         eps : the empty pattern                     *)
(*   wb   : \b                 bol : ^             eol : $                 *)
(***************************************************************************)

Ch(c) == [t |-> "set", cs |-> {c}]
Cls(S) == [t |-> "set", cs |-> S]
Star(S) == [t |-> "star", cs |-> S]
Plus(S) == [t |-> "seq", a |-> Cls(S), b |-> Star(S)]
Eps == [t |-> "eps"]
WB == [t |-> "wb"]
BOL == [t |-> "bol"]
EOL == [t |-> "eol"]
Alt2(x, y) == [t |-> "alt", a |-> x, b |-> y]
Seq2(x, y) == [t |-> "seq", a |-> x, b |-> y]
Opt(x) == Alt2(x, Eps)

RECURSIVE Cat(_)
Cat(rs) ==
  IF Len(rs) = 0 THEN Eps
  ELSE IF Len(rs) = 1 THEN rs[1]
  ELSE Seq2(rs[1], Cat(Tail(rs)))

RECURSIVE Alt(_)
Alt(rs) ==
  IF Len(rs) = 1 THEN rs[1] ELSE Alt2(rs[1], Alt(Tail(rs)))

\* The literal text s as a pattern.
Lit(s) == Cat([i \in 1..Len(s) |-> Ch(s[i])])

\* Whether character c is in the class S, under the i flag when ic: the i
\* flag compares the upper-case forms, and a character shares its upper-case
\* form only with its own lower-case and upper-case forms.
InClass(c, S, ic) ==
  \/ c \in S
  \/ ic /\ (ToUpperChar(c) \in S \/ ToLowerChar(c) \in S)

IsWordAt(s, i) == i >= 1 /\ i <= Len(s) /\ s[i] \in WordChars

\* The end (index of the next unread character) of the first match, in
\* backtracking order, of the patterns of stack one after the other from
\* position i of s; 0 when there is none.
RECURSIVE MatchFrom(_, _, _, _)
MatchFrom(stack, s, i, ic) ==
  IF Len(stack) = 0 THEN i
  ELSE
    LET r == Head(stack)
        rest == Tail(stack)
    IN CASE r.t = "set" ->
              IF i <= Len(s) /\ InClass(s[i], r.cs, ic)
              THEN MatchFrom(rest, s, i + 1, ic) ELSE 0
         [] r.t = "nset" ->
              IF i <= Len(s) /\ ~InClass(s[i], r.cs, ic)
              THEN MatchFrom(rest, s, i + 1, ic) ELSE 0
         [] r.t = "seq" -> MatchFrom(<<r.a, r.b>> \o rest, s, i, ic)
         [] r.t = "alt" ->
              LET first == MatchFrom(<<r.a>> \o rest, s, i, ic)
              IN IF first # 0 THEN first
                 ELSE MatchFrom(<<r.b>> \o rest, s, i, ic)
         [] r.t = "star" ->
              IF i <= Len(s) /\ InClass(s[i], r.cs, ic)
              THEN LET more == MatchFrom(stack, s, i + 1, ic)
                   IN IF more # 0 THEN more
                      ELSE MatchFrom(rest, s, i, ic)
              ELSE MatchFrom(rest, s, i, ic)
         [] r.t = "eps" -> MatchFrom(rest, s, i, ic)
         [] r.t = "wb" ->
              IF IsWordAt(s, i - 1) # IsWordAt(s, i)
              THEN MatchFrom(rest, s, i, ic) ELSE 0
         [] r.t = "bol" ->
              IF i = 1 THEN MatchFrom(rest, s, i, ic) ELSE 0
         [] r.t = "eol" ->
              IF i = Len(s) + 1 THEN MatchFrom(rest, s, i, ic) ELSE 0

\* const name = value; ...: value is computed once and Body is what follows
\* the declaration, with the name standing for it.
Const(value, Body(_)) == Body(value)

\* A regular expression object: its pattern and its flags.
RegExp(pat, ignoreCase, global) == [pat |-> pat, ic |-> ignoreCase, g |-> global]

\* The result of a search that found nothing (positions start at 1).
NoMatch == [index |-> 0, end |-> 0]

\* The leftmost match of re in s starting at or after position from:
\* [index, end] (end = index of the character after the match), or
\* NoMatch.
RECURSIVE SearchFrom(_, _, _)
SearchFrom(re, s, from) ==
  IF from > Len(s) + 1 THEN NoMatch
  ELSE Const(MatchFrom(<<re.pat>>, s, from, re.ic), LAMBDA e :
         IF e # 0 THEN [index |-> from, end |-> e]
         ELSE SearchFrom(re, s, from + 1))

\* null / undefined, as a value comparable with text.
Null == <<"null">>

(***************************************************************************)
(* intent-classifier.js: dictionaries and patterns                         *)
(***************************************************************************)
KNOWN_BRANDS ==
  <<<<"c","a","n","o","n">>, <<"s","o","n","y">>, <<"n","i","k","o","n">>,
    <<"f","u","j","i","f","i","l","m">>, <<"f","u","j","i">>,
    <<"p","a","n","a","s","o","n","i","c">>, <<"l","u","m","i","x">>,
    <<"o","l","y","m","p","u","s">>,
    <<"o","m"," ","s","y","s","t","e","m">>, <<"l","e","i","c","a">>,
    <<"s","i","g","m","a">>, <<"t","a","m","r","o","n">>,
    <<"v","i","l","t","r","o","x">>, <<"s","a","m","y","a","n","g">>,
    <<"g","o","d","o","x">>, <<"p","r","o","f","o","t","o">>,
    <<"m","a","n","f","r","o","t","t","o">>, <<"b","e","n","r","o">>,
    <<"g","i","t","z","o">>,
    <<"p","e","a","k"," ","d","e","s","i","g","n">>,
    <<"l","o","w","e","p","r","o">>, <<"h","o","y","a">>, <<"b","+","w">>,
    <<"n","i","s","i">>, <<"d","j","i">>, <<"g","o","p","r","o">>,
    <<"s","a","n","d","i","s","k">>, <<"l","e","x","a","r">>,
    <<"k","i","n","g","s","t","o","n">>, <<"z","h","i","y","u","n">>,
    <<"r","o","d","e">>, <<"s","e","n","n","h","e","i","s","e","r">>,
    <<"s","m","a","l","l","r","i","g">>, <<"f","o","m","e","i">>,
    <<"p","a","t","o","n","a">>, <<"n","e","w","e","l","l">>,
    <<"s","a","v","a","g","e">>, <<"m","a","r","u","m","i">>,
    <<"e","p","s","o","n">>, <<"g","l","a","r","e","o","n","e">>,
    <<"h","a","s","s","e","l","b","l","a","d">>, <<"r","i","c","o","h">>,
    <<"p","e","n","t","a","x">>, <<"z","e","i","s","s">>,
    <<"t","o","k","i","n","a">>, <<"l","a","o","w","a">>,
    <<"j","o","b","y">>,
    <<"t","e","t","h","e","r"," ","t","o","o","l","s">>,
    <<"e","l","i","n","c","h","r","o","m">>,
    <<"b","r","o","n","c","o","l","o","r">>, <<"a","p","u","t","u","r","e">>>>

BRAND_PATTERN ==
  RegExp(Cat(<<WB, Alt([k \in 1..Len(KNOWN_BRANDS) |-> Lit(KNOWN_BRANDS[k])]), WB>>),
         TRUE, FALSE)

CATEGORY_NAMES ==
  <<[k |-> <<"a","p","a","r","a","t","y">>,
     v |-> <<"A","p","a","r","a","t","y"," ","c","y","f","r","o","w","e">>],
    [k |-> <<"a","p","a","r","a","t","y"," ","c","y","f","r","o","w","e">>,
     v |-> <<"A","p","a","r","a","t","y"," ","c","y","f","r","o","w","e">>],
    [k |-> <<"a","p","a","r","a","t","y"," ","b","e","z","l","u","s","t","e","r","k","o","w","e">>,
     v |-> <<"A","p","a","r","a","t","y"," ","c","y","f","r","o","w","e">>],
    [k |-> <<"b","e","z","l","u","s","t","e","r","k","o","w","c","e">>,
     v |-> <<"A","p","a","r","a","t","y"," ","c","y","f","r","o","w","e">>],
    [k |-> <<"m","i","r","r","o","r","l","e","s","s">>,
     v |-> <<"A","p","a","r","a","t","y"," ","c","y","f","r","o","w","e">>],
    [k |-> <<"l","u","s","t","r","z","a","n","k","i">>,
     v |-> <<"A","p","a","r","a","t","y"," ","c","y","f","r","o","w","e">>],
    [k |-> <<"d","s","l","r">>,
     v |-> <<"A","p","a","r","a","t","y"," ","c","y","f","r","o","w","e">>],
    [k |-> <<"a","p","a","r","a","t","y"," ","a","n","a","l","o","g","o","w","e">>,
     v |-> <<"A","p","a","r","a","t","y"," ","a","n","a","l","o","g","o","w","e">>],
    [k |-> <<"a","n","a","l","o","g","o","w","e">>,
     v |-> <<"A","p","a","r","a","t","y"," ","a","n","a","l","o","g","o","w","e">>],
    [k |-> <<"o","b","i","e","k","t","y","w","y">>,
     v |-> <<"O","b","i","e","k","t","y","w","y"," ","d","o"," ","b","e","z","l","u","s","t","e","r","k","o","w","c","o'","w">>],
    [k |-> <<"o","b","i","e","k","t","y","w">>,
     v |-> <<"O","b","i","e","k","t","y","w","y"," ","d","o"," ","b","e","z","l","u","s","t","e","r","k","o","w","c","o'","w">>],
    [k |-> <<"o","b","i","e","k","t","y","w","y"," ","d","o"," ","b","e","z","l","u","s","t","e","r","k","o","w","c","o'","w">>,
     v |-> <<"O","b","i","e","k","t","y","w","y"," ","d","o"," ","b","e","z","l","u","s","t","e","r","k","o","w","c","o'","w">>],
    [k |-> <<"o","b","i","e","k","t","y","w","y"," ","d","o"," ","l","u","s","t","r","z","a","n","e","k">>,
     v |-> <<"O","b","i","e","k","t","y","w","y"," ","d","o"," ","l","u","s","t","r","z","a","n","e","k">>],
    [k |-> <<"s","t","a","t","y","w","y">>,
     v |-> <<"S","t","a","t","y","w","y"," ","i"," ","a","k","c","e","s","o","r","i","a">>],
    [k |-> <<"s","t","a","t","y","w">>,
     v |-> <<"S","t","a","t","y","w","y"," ","i"," ","a","k","c","e","s","o","r","i","a">>],
    [k |-> <<"l","a","m","p","y"," ","b","l/","y","s","k","o","w","e">>,
     v |-> <<"L","a","m","p","y"," ","b","l/","y","s","k","o","w","e">>],
    [k |-> <<"l","a","m","p","y">>,
     v |-> <<"L","a","m","p","y"," ","b","l/","y","s","k","o","w","e">>],
    [k |-> <<"f","l","e","s","z">>,
     v |-> <<"L","a","m","p","y"," ","b","l/","y","s","k","o","w","e">>],
    [k |-> <<"f","l","a","s","h">>,
     v |-> <<"L","a","m","p","y"," ","b","l/","y","s","k","o","w","e">>],
    [k |-> <<"l","a","m","p","y"," ","s","t","u","d","y","j","n","e">>,
     v |-> <<"L","a","m","p","y"," ","b","l/","y","s","k","o","w","e"," ","s","t","u","d","y","j","n","e">>],
    [k |-> <<"o","s'","w","i","e","t","l","e","n","i","e">>,
     v |-> <<"L","a","m","p","y"," ","s'","w","i","a","t","l/","a"," ","c","i","a,","g","l/","e","g","o">>],
    [k |-> <<"l","a","m","p","y"," ","w","i","d","e","o">>,
     v |-> <<"L","a","m","p","y"," ","w","i","d","e","o">>],
    [k |-> <<"s","o","f","t","b","o","x","y">>,
     v |-> <<"S","o","f","t","b","o","x","y"," ","i"," ","a","k","c","e","s","o","r","i","a">>],
    [k |-> <<"f","i","l","t","r","y">>,
     v |-> <<"F","i","l","t","r","y",","," ","p","o","k","r","y","w","k","i">>],
    [k |-> <<"f","i","l","t","r">>,
     v |-> <<"F","i","l","t","r","y",","," ","p","o","k","r","y","w","k","i">>],
    [k |-> <<"f","i","l","t","r","y"," ","n","d">>,
     v |-> <<"F","i","l","t","r","y",","," ","p","o","k","r","y","w","k","i">>],
    [k |-> <<"f","i","l","t","r","y"," ","u","v">>,
     v |-> <<"F","i","l","t","r","y",","," ","p","o","k","r","y","w","k","i">>],
    [k |-> <<"f","i","l","t","r","y"," ","p","r","o","s","t","o","k","a,","t","n","e">>,
     v |-> <<"F","i","l","t","r","y"," ","p","r","o","s","t","o","k","a,","t","n","e">>],
    [k |-> <<"k","a","r","t","y"," ","p","a","m","i","e,","c","i">>,
     v |-> <<"K","a","r","t","y"," ","p","a","m","i","e,","c","i">>],
    [k |-> <<"k","a","r","t","y"," ","s","d">>,
     v |-> <<"K","a","r","t","y"," ","p","a","m","i","e,","c","i">>],
    [k |-> <<"k","a","r","t","y"," ","c","f">>,
     v |-> <<"K","a","r","t","y"," ","p","a","m","i","e,","c","i">>],
    [k |-> <<"t","o","r","b","y">>,
     v |-> <<"T","o","r","b","y",","," ","p","l","e","c","a","k","i",","," ","w","a","l","i","z","k","i">>],
    [k |-> <<"p","l","e","c","a","k","i">>,
     v |-> <<"T","o","r","b","y",","," ","p","l","e","c","a","k","i",","," ","w","a","l","i","z","k","i">>],
    [k |-> <<"p","l","e","c","a","k">>,
     v |-> <<"T","o","r","b","y",","," ","p","l","e","c","a","k","i",","," ","w","a","l","i","z","k","i">>],
    [k |-> <<"w","a","l","i","z","k","i">>,
     v |-> <<"T","o","r","b","y",","," ","p","l","e","c","a","k","i",","," ","w","a","l","i","z","k","i">>],
    [k |-> <<"d","r","o","n","y">>,
     v |-> <<"D","r","o","n","y">>],
    [k |-> <<"d","r","o","n">>,
     v |-> <<"D","r","o","n","y">>],
    [k |-> <<"k","a","m","e","r","y">>,
     v |-> <<"K","a","m","e","r","y"," ","c","y","f","r","o","w","e">>],
    [k |-> <<"k","a","m","e","r","a">>,
     v |-> <<"K","a","m","e","r","y"," ","c","y","f","r","o","w","e">>],
    [k |-> <<"k","a","m","e","r","y"," ","s","p","o","r","t","o","w","e">>,
     v |-> <<"K","a","m","e","r","y"," ","s","p","o","r","t","o","w","e">>],
    [k |-> <<"g","o","p","r","o">>,
     v |-> <<"K","a","m","e","r","y"," ","s","p","o","r","t","o","w","e">>],
    [k |-> <<"k","a","m","e","r","y"," ","i","n","t","e","r","n","e","t","o","w","e">>,
     v |-> <<"K","a","m","e","r","y"," ","i","n","t","e","r","n","e","t","o","w","e">>],
    [k |-> <<"g","i","m","b","a","l","e">>,
     v |-> <<"S","y","s","t","e","m","y"," ","s","t","a","b","i","l","i","z","a","c","j","i">>],
    [k |-> <<"g","i","m","b","a","l">>,
     v |-> <<"S","y","s","t","e","m","y"," ","s","t","a","b","i","l","i","z","a","c","j","i">>],
    [k |-> <<"s","t","a","b","i","l","i","z","a","t","o","r","y">>,
     v |-> <<"S","y","s","t","e","m","y"," ","s","t","a","b","i","l","i","z","a","c","j","i">>],
    [k |-> <<"a","u","d","i","o">>,
     v |-> <<"A","u","d","i","o">>],
    [k |-> <<"m","i","k","r","o","f","o","n">>,
     v |-> <<"A","u","d","i","o">>],
    [k |-> <<"m","i","k","r","o","f","o","n","y">>,
     v |-> <<"A","u","d","i","o">>],
    [k |-> <<"s","l/","u","c","h","a","w","k","i">>,
     v |-> <<"S","l/","u","c","h","a","w","k","i">>],
    [k |-> <<"a","k","u","m","u","l","a","t","o","r","y">>,
     v |-> <<"A","k","u","m","u","l","a","t","o","r","y">>],
    [k |-> <<"a","k","u","m","u","l","a","t","o","r">>,
     v |-> <<"A","k","u","m","u","l","a","t","o","r","y">>],
    [k |-> <<"b","a","t","e","r","i","e">>,
     v |-> <<"A","k","u","m","u","l","a","t","o","r","y">>],
    [k |-> <<"l/","a","d","o","w","a","r","k","i">>,
     v |-> <<"L/","a","d","o","w","a","r","k","i">>],
    [k |-> <<"z","a","s","i","l","a","n","i","e">>,
     v |-> <<"Z","a","s","i","l","a","n","i","e">>],
    [k |-> <<"l","o","r","n","e","t","k","i">>,
     v |-> <<"L","o","r","n","e","t","k","i">>],
    [k |-> <<"l","o","r","n","e","t","k","a">>,
     v |-> <<"L","o","r","n","e","t","k","i">>],
    [k |-> <<"l","u","n","e","t","y">>,
     v |-> <<"L","u","n","e","t","y">>],
    [k |-> <<"t","e","l","e","s","k","o","p","y">>,
     v |-> <<"T","e","l","e","s","k","o","p","y">>],
    [k |-> <<"m","o","n","i","t","o","r","y">>,
     v |-> <<"M","o","n","i","t","o","r","y">>],
    [k |-> <<"m","o","n","i","t","o","r">>,
     v |-> <<"M","o","n","i","t","o","r","y">>],
    [k |-> <<"d","r","u","k","a","r","k","i">>,
     v |-> <<"D","r","u","k","a","r","k","i">>],
    [k |-> <<"d","r","u","k","a","r","k","a">>,
     v |-> <<"D","r","u","k","a","r","k","i">>],
    [k |-> <<"s","k","a","n","e","r","y">>,
     v |-> <<"S","k","a","n","e","r","y">>],
    [k |-> <<"t","a","b","l","e","t","y">>,
     v |-> <<"T","a","b","l","e","t","y">>],
    [k |-> <<"e","t","u","i">>,
     v |-> <<"E","t","u","i">>],
    [k |-> <<"p","a","s","k","i">>,
     v |-> <<"P","a","s","k","i"," ","i"," ","s","z","e","l","k","i">>],
    [k |-> <<"a","d","a","p","t","e","r","y">>,
     v |-> <<"A","d","a","p","t","e","r","y"," ","b","a","g","n","e","t","o","w","e">>],
    [k |-> <<"d","y","s","k","i">>,
     v |-> <<"D","y","s","k","i"," ","t","w","a","r","d","e">>],
    [k |-> <<"t","l/","a">>,
     v |-> <<"T","l/","a"," ","i"," ","s","y","s","t","e","m","y"," ","z","a","w","i","e","s","z","a","n","i","a">>],
    [k |-> <<"p","a","p","i","e","r">>,
     v |-> <<"P","a","p","i","e","r"," ","f","o","t","o","g","r","a","f","i","c","z","n","y">>],
    [k |-> <<"u","z.","y","w","a","n","e">>,
     v |-> <<"U","z.","y","w","a","n","e"," ","a","p","a","r","a","t","y"," ","c","y","f","r","o","w","e">>]>>

BODY_MODEL_PATTERNS ==
  <<[brand |-> <<"s","o","n","y">>,
     pattern |-> RegExp(Cat(<<BOL, Alt(<<Cat(<<Ch("a"),
       Cls({"1","2","3","4","5","6","7","8","9"}), WB>>),
       Cat(<<Lit(<<"a","7">>), Opt(Cls({"c","r","s"})), WB>>),
       Cat(<<Lit(<<"a","6">>), Cat(<<Cls(Digits), Cls(Digits),
       Cls(Digits)>>), WB>>), Cat(<<Lit(<<"a","9">>), WB>>),
       Cat(<<Lit(<<"a","l","p","h","a">>), WB>>), Cat(<<Lit(<<"f","x">>),
       Cls(Digits)>>)>>)>>), TRUE, FALSE)],
    [brand |-> <<"c","a","n","o","n">>,
     pattern |-> RegExp(Cat(<<BOL, Alt(<<Cat(<<Lit(<<"e","o","s">>), WB>>), Cat(<<Ch("r"),
       Cls(Digits), WB>>), Cat(<<Lit(<<"r","5">>), WB>>),
       Cat(<<Lit(<<"r","6">>), WB>>), Cat(<<Lit(<<"r","7">>), WB>>),
       Cat(<<Lit(<<"r","8">>), WB>>), Cat(<<Lit(<<"r","1","0">>), WB>>),
       Cat(<<Lit(<<"r","5","0">>), WB>>), Cat(<<Lit(<<"r","1","0","0">>),
       WB>>), Cat(<<Lit(<<"p","o","w","e","r","s","h","o","t">>), WB>>),
       Cat(<<Lit(<<"1","d">>), WB>>), Cat(<<Lit(<<"5","d">>), WB>>),
       Cat(<<Lit(<<"6","d">>), WB>>), Cat(<<Lit(<<"7","d">>), WB>>),
       Cat(<<Lit(<<"8","0","d">>), WB>>), Cat(<<Lit(<<"9","0","d">>),
       WB>>)>>)>>), TRUE, FALSE)],
    [brand |-> <<"n","i","k","o","n">>,
     pattern |-> RegExp(Cat(<<BOL, Alt(<<Cat(<<Ch("z"), Cls(Digits), WB>>),
       Cat(<<Lit(<<"z","5">>), WB>>), Cat(<<Lit(<<"z","6">>), WB>>),
       Cat(<<Lit(<<"z","7">>), WB>>), Cat(<<Lit(<<"z","8">>), WB>>),
       Cat(<<Lit(<<"z","9">>), WB>>), Cat(<<Lit(<<"z","3","0">>), WB>>),
       Cat(<<Lit(<<"z","5","0">>), WB>>), Cat(<<Lit(<<"z","f">>), WB>>),
       Cat(<<Lit(<<"z","f","c">>), WB>>), Cat(<<Ch("d"), Cat(<<Cls(Digits),
       Cls(Digits), Cls(Digits), Opt(Cls(Digits))>>), WB>>)>>)>>), TRUE,
       FALSE)],
    [brand |-> <<"f","u","j","i","f","i","l","m">>,
     pattern |-> RegExp(Cat(<<BOL, Alt(<<Cat(<<Ch("x"), Opt(Ch("-")), Cls(LowerLetters),
       Cls(Digits)>>), Cat(<<Ch("x"), Opt(Ch("-")),
       Cls({"t","h","s","e","p"}), Cls(Digits)>>),
       Cat(<<Lit(<<"x","1","0","0">>), WB>>), Cat(<<Lit(<<"g","f","x">>),
       WB>>)>>)>>), TRUE, FALSE)],
    [brand |-> <<"f","u","j","i">>,
     pattern |-> RegExp(Cat(<<BOL, Alt(<<Cat(<<Ch("x"), Opt(Ch("-")), Cls(LowerLetters),
       Cls(Digits)>>), Cat(<<Ch("x"), Opt(Ch("-")),
       Cls({"t","h","s","e","p"}), Cls(Digits)>>),
       Cat(<<Lit(<<"x","1","0","0">>), WB>>), Cat(<<Lit(<<"g","f","x">>),
       WB>>)>>)>>), TRUE, FALSE)],
    [brand |-> <<"p","a","n","a","s","o","n","i","c">>,
     pattern |-> RegExp(Cat(<<BOL, Alt(<<Cat(<<Ch("s"), Cls(Digits), WB>>),
       Cat(<<Lit(<<"s","5">>), WB>>), Cat(<<Lit(<<"g","h">>), Cls(Digits),
       WB>>), Cat(<<Ch("g"), Cls(Digits), WB>>),
       Cat(<<Lit(<<"l","u","m","i","x">>), WB>>)>>)>>), TRUE, FALSE)],
    [brand |-> <<"l","u","m","i","x">>,
     pattern |-> RegExp(Cat(<<BOL, Alt(<<Cat(<<Ch("s"), Cls(Digits), WB>>),
       Cat(<<Lit(<<"s","5">>), WB>>), Cat(<<Lit(<<"g","h">>), Cls(Digits),
       WB>>), Cat(<<Ch("g"), Cls(Digits), WB>>)>>)>>), TRUE, FALSE)],
    [brand |-> <<"o","l","y","m","p","u","s">>,
     pattern |-> RegExp(Cat(<<BOL, Alt(<<Cat(<<Lit(<<"o","m">>), Opt(Ch("-")), Cls(Digits),
       WB>>), Cat(<<Ch("e"), Opt(Ch("-")), Ch("m"), Cls(Digits), WB>>),
       Cat(<<Lit(<<"p","e","n">>), WB>>)>>)>>), TRUE, FALSE)],
    [brand |-> <<"o","m"," ","s","y","s","t","e","m">>,
     pattern |-> RegExp(Cat(<<BOL, Alt(<<Cat(<<Lit(<<"o","m">>), Opt(Ch("-")), Cls(Digits),
       WB>>), Cat(<<Ch("e"), Opt(Ch("-")), Ch("m"), Cls(Digits),
       WB>>)>>)>>), TRUE, FALSE)],
    [brand |-> <<"l","e","i","c","a">>,
     pattern |-> RegExp(Cat(<<BOL, Alt(<<Cat(<<Lit(<<"s","l">>), Opt(Cls(Digits)), WB>>),
       Cat(<<Ch("q"), Opt(Cls(Digits)), WB>>), Cat(<<Ch("m"),
       Cat(<<Cls(Digits), Opt(Cls(Digits))>>), WB>>),
       Cat(<<Lit(<<"c","l">>), WB>>)>>)>>), TRUE, FALSE)],
    [brand |-> <<"h","a","s","s","e","l","b","l","a","d">>,
     pattern |-> RegExp(Cat(<<BOL, Alt(<<Cat(<<Ch("x"), Cls(Digits), Ch("d"), WB>>),
       Cat(<<Lit(<<"9","0","7">>), WB>>)>>)>>), TRUE, FALSE)],
    [brand |-> <<"r","i","c","o","h">>,
     pattern |-> RegExp(Cat(<<BOL, Alt(<<Cat(<<Lit(<<"g","r">>), WB>>),
       Cat(<<Lit(<<"t","h","e","t","a">>), WB>>)>>)>>), TRUE, FALSE)],
    [brand |-> <<"p","e","n","t","a","x">>,
     pattern |-> RegExp(Cat(<<BOL, Ch("k"), Opt(Ch("-")), Cls(Digits), WB>>), TRUE, FALSE)],
    [brand |-> <<"d","j","i">>,
     pattern |-> RegExp(Cat(<<BOL, Alt(<<Cat(<<Lit(<<"m","a","v","i","c">>), WB>>),
       Cat(<<Lit(<<"m","i","n","i">>), WB>>), Cat(<<Lit(<<"a","i","r">>),
       WB>>), Cat(<<Lit(<<"p","h","a","n","t","o","m">>), WB>>),
       Cat(<<Lit(<<"o","s","m","o">>), WB>>),
       Cat(<<Lit(<<"p","o","c","k","e","t">>), WB>>),
       Cat(<<Lit(<<"a","v","a","t","a">>), WB>>),
       Cat(<<Lit(<<"a","c","t","i","o","n">>), WB>>)>>)>>), TRUE, FALSE)],
    [brand |-> <<"g","o","p","r","o">>,
     pattern |-> RegExp(Cat(<<BOL, Alt(<<Cat(<<Lit(<<"h","e","r","o">>), WB>>),
       Cat(<<Lit(<<"m","a","x">>), WB>>)>>)>>), TRUE, FALSE)]>>

MODEL_TO_BRAND ==
  <<[pattern |-> RegExp(Alt(<<Cat(<<WB, Lit(<<"e","o","s">>), WB>>), Cat(<<BOL, Ch("r"),
       Cls(Digits), WB>>), Cat(<<BOL, Lit(<<"r","5">>), WB>>), Cat(<<BOL,
       Lit(<<"r","6">>), WB>>), Cat(<<BOL, Lit(<<"r","7">>), WB>>),
       Cat(<<BOL, Lit(<<"r","8">>), WB>>), Cat(<<BOL, Lit(<<"r","1","0">>),
       WB>>), Cat(<<BOL, Lit(<<"r","5","0">>), WB>>), Cat(<<BOL,
       Lit(<<"r","1","0","0">>), WB>>), Cat(<<BOL,
       Lit(<<"p","o","w","e","r","s","h","o","t">>), WB>>), Cat(<<WB,
       Lit(<<"1","d">>), WB>>), Cat(<<WB, Lit(<<"5","d">>), WB>>), Cat(<<WB,
       Lit(<<"6","d">>), WB>>), Cat(<<WB, Lit(<<"7","d">>), WB>>), Cat(<<WB,
       Lit(<<"8","0","d">>), WB>>), Cat(<<WB, Lit(<<"9","0","d">>),
       WB>>)>>), TRUE, FALSE),
     brand |-> <<"c","a","n","o","n">>],
    [pattern |-> RegExp(Alt(<<Cat(<<WB, Lit(<<"a","l","p","h","a">>), WB>>), Cat(<<BOL,
       Ch("a"), Cls({"1","2","3","4","5","6","7","8","9"}), WB>>),
       Cat(<<BOL, Lit(<<"a","7">>), Opt(Cls({"c","r","s"})), WB>>),
       Cat(<<BOL, Lit(<<"a","6">>), Cat(<<Cls(Digits), Cls(Digits),
       Cls(Digits)>>), WB>>), Cat(<<BOL, Lit(<<"a","9">>), WB>>), Cat(<<BOL,
       Lit(<<"z","v">>), Opt(Ch("-")), Cls(Digits \cup {"e"})>>)>>), TRUE,
       FALSE),
     brand |-> <<"s","o","n","y">>],
    [pattern |-> RegExp(Alt(<<Cat(<<WB, Lit(<<"l","u","m","i","x">>), WB>>), Cat(<<BOL,
       Lit(<<"g","h">>), Cls(Digits), WB>>), Cat(<<BOL, Ch("g"),
       Cls(Digits), WB>>), Cat(<<BOL, Lit(<<"s","5">>), WB>>)>>), TRUE,
       FALSE),
     brand |-> <<"p","a","n","a","s","o","n","i","c">>],
    [pattern |-> RegExp(Cat(<<BOL, Alt(<<Cat(<<Ch("x"), Opt(Ch("-")), Ch("t"),
       Cls(Digits)>>), Cat(<<Ch("x"), Opt(Ch("-")), Cls({"h","s","e","p"}),
       Cls(Digits)>>), Cat(<<Lit(<<"x","1","0","0">>), WB>>),
       Cat(<<Lit(<<"g","f","x">>), WB>>), Cat(<<Ch("x"), Opt(Ch("-")),
       Lit(<<"p","r","o">>)>>)>>)>>), TRUE, FALSE),
     brand |-> <<"f","u","j","i","f","i","l","m">>],
    [pattern |-> RegExp(Cat(<<BOL, Alt(<<Cat(<<Ch("z"), Cls({"5","6","7","8","9"}), WB>>),
       Cat(<<Lit(<<"z","3","0">>), WB>>), Cat(<<Lit(<<"z","5","0">>), WB>>),
       Cat(<<Lit(<<"z","f">>), WB>>), Cat(<<Lit(<<"z","f","c">>), WB>>),
       Cat(<<Ch("d"), Cls({"3","4","5","6","7","8","9"}), Cat(<<Cls(Digits),
       Cls(Digits)>>), WB>>), Cat(<<Ch("d"), Cat(<<Cls(Digits), Cls(Digits),
       Cls(Digits), Cls(Digits)>>), WB>>)>>)>>), TRUE, FALSE),
     brand |-> <<"n","i","k","o","n">>],
    [pattern |-> RegExp(Cat(<<WB, Alt(<<Cat(<<Lit(<<"m","a","v","i","c">>), WB>>),
       Cat(<<Lit(<<"o","s","m","o">>), WB>>),
       Cat(<<Lit(<<"p","h","a","n","t","o","m">>), WB>>),
       Cat(<<Lit(<<"a","v","a","t","a">>), WB>>)>>)>>), TRUE, FALSE),
     brand |-> <<"d","j","i">>],
    [pattern |-> RegExp(Cat(<<WB, Lit(<<"h","e","r","o">>), WB>>), TRUE, FALSE),
     brand |-> <<"g","o","p","r","o">>],
    [pattern |-> RegExp(Cat(<<BOL, Alt(<<Cat(<<Lit(<<"o","m">>), Opt(Ch("-")), Cls(Digits),
       WB>>), Cat(<<Ch("e"), Opt(Ch("-")), Ch("m"), Cls(Digits), WB>>),
       Cat(<<Lit(<<"p","e","n">>), WB>>)>>)>>), TRUE, FALSE),
     brand |-> <<"o","l","y","m","p","u","s">>],
    [pattern |-> RegExp(Cat(<<BOL, Alt(<<Cat(<<Lit(<<"g","r">>), WB>>),
       Cat(<<Lit(<<"t","h","e","t","a">>), WB>>)>>)>>), TRUE, FALSE),
     brand |-> <<"r","i","c","o","h">>],
    [pattern |-> RegExp(Cat(<<BOL, Ch("k"), Opt(Ch("-")), Cls(Digits), WB>>), TRUE, FALSE),
     brand |-> <<"p","e","n","t","a","x">>]>>

USED_PATTERN_source ==
  Cat(<<WB, Alt(<<Cat(<<Lit(<<"u","z.","y","w">>), Star(WordChars)>>),
    Cat(<<Lit(<<"u","z","y","w">>), Star(WordChars)>>),
    Cat(<<Lit(<<"s","e","c","o","n","d">>), Opt(Cls(WhiteSpace \cup {"-"})),
    Lit(<<"h","a","n","d">>)>>),
    Cat(<<Lit(<<"p","o","l","e","a","s","i","n","g","o","w">>),
    Star(WordChars)>>)>>), Alt(<<WB, EOL>>)>>)

\* The same pattern with the g flag: test and exec then start at lastIndex.
USED_PATTERN_global == RegExp(USED_PATTERN_source, TRUE, TRUE)

USED_PATTERN == RegExp(USED_PATTERN_source, TRUE, FALSE)

NEW_PATTERN ==
  RegExp(Cat(<<WB, Alt(<<Cat(<<Lit(<<"n","o","w">>),
    Cls({"y","a","e","i","o"})>>),
    Cat(<<Lit(<<"f","a","b","r","y","c","z","n","i">>), Opt(Ch("e")),
    Star(WhiteSpace), Lit(<<"n","o","w">>), Cls({"y","a","e","i","o"})>>),
    Lit(<<"n","o'","w","k","a">>)>>), Alt(<<WB, EOL>>)>>), TRUE, FALSE)

ACCESSORY_PATTERN ==
  RegExp(Cat(<<WB, Alt(<<Cat(<<Lit(<<"a","k","c","e","s","o">>),
    Star(WordChars)>>), Cat(<<Lit(<<"a","c","c","e","s","s","o">>),
    Star(WordChars)>>), Cat(<<Lit(<<"k","l","a","t","k">>),
    Cls({"a","i","e,"}), Star(WordChars)>>), Cat(<<Lit(<<"g","r","i","p">>),
    Star(WordChars)>>), Cat(<<Lit(<<"o","s","l/","o","n">>),
    Star(WordChars)>>), Cat(<<Lit(<<"e","t","u","i">>), Star(WordChars)>>),
    Cat(<<Lit(<<"f","i","l","t","r">>), Star(WordChars)>>),
    Cat(<<Lit(<<"t","o","r","b">>), Cls({"a","e,","y"}), Star(WordChars)>>),
    Cat(<<Lit(<<"p","l","e","c","a","k">>), Star(WordChars)>>),
    Cat(<<Lit(<<"p","a","s","e","k">>), Star(WordChars)>>),
    Cat(<<Lit(<<"l/","a","d","o","w","a","r","k">>), Star(WordChars)>>),
    Cat(<<Lit(<<"a","k","u","m","u","l","a","t">>), Star(WordChars)>>),
    Cat(<<Lit(<<"b","a","t","e","r","i">>), Star(WordChars)>>)>>), Alt(<<WB,
    EOL>>)>>), TRUE, FALSE)

PATTERNS_EAN ==
  RegExp(Cat(<<BOL, Alt(<<Cat(<<Cat(<<Cls(Digits), Cls(Digits), Cls(Digits),
    Cls(Digits), Cls(Digits), Cls(Digits), Cls(Digits), Cls(Digits)>>),
    EOL>>), Cat(<<Cat(<<Cls(Digits), Cls(Digits), Cls(Digits), Cls(Digits),
    Cls(Digits), Cls(Digits), Cls(Digits), Cls(Digits), Cls(Digits),
    Cls(Digits), Cls(Digits), Cls(Digits), Cls(Digits)>>), EOL>>)>>)>>),
    FALSE, FALSE)

PATTERNS_SKU_source ==
  Cat(<<BOL, Cat(<<Cls(UpperLetters), Cls(UpperLetters),
    Opt(Seq2(Cls(UpperLetters), Opt(Cls(UpperLetters))))>>), Cls({"-","_"}),
    Star(UpperLetters), Cls(Digits), Star(UpperLetters \cup Digits)>>)

\* The same pattern without the i flag.
PATTERNS_SKU_caseSensitive == RegExp(PATTERNS_SKU_source, FALSE, FALSE)

PATTERNS_SKU == RegExp(PATTERNS_SKU_source, TRUE, FALSE)

PATTERNS_PARAMETRIC_APERTURE ==
  RegExp(Cat(<<Lit(<<"f","/">>), Plus(Digits), Opt(Ch(".")), Star(Digits)>>),
    TRUE, FALSE)

PATTERNS_PARAMETRIC_FOCAL ==
  RegExp(Cat(<<Plus(Digits), Opt(Cat(<<Ch("-"), Plus(Digits)>>)),
    Star(WhiteSpace), Lit(<<"m","m">>)>>), TRUE, FALSE)

PATTERNS_PARAMETRIC_RES ==
  RegExp(Cat(<<WB, Plus(Digits), Cls({"k","K"}), WB>>), FALSE, FALSE)

PATTERNS_PARAMETRIC_FPS ==
  RegExp(Cat(<<Plus(Digits), Star(WhiteSpace), Lit(<<"f","p","s">>)>>), TRUE,
    FALSE)

PATTERNS_PARAMETRIC_SENSOR ==
  RegExp(Cat(<<WB, Alt(<<Cat(<<Lit(<<"f","u","l","l">>), Star(WhiteSpace),
    Lit(<<"f","r","a","m","e">>)>>), Cat(<<Lit(<<"a","p","s">>),
    Opt(Ch("-")), Ch("c")>>), Cat(<<Lit(<<"m","i","c","r","o">>),
    Star(WhiteSpace), Lit(<<"4","/","3">>)>>), Lit(<<"m","4","3">>),
    Cat(<<Lit(<<"p","e","l/","n","a">>), Star(WhiteSpace),
    Lit(<<"k","l","a","t","k","a">>)>>)>>), WB>>), TRUE, FALSE)

PATTERNS_PARAMETRIC_MOUNT ==
  RegExp(Cat(<<WB, Alt(<<Lit(<<"R","F">>), Lit(<<"E","F">>), Lit(<<"F","E">>),
    Lit(<<"E","-","m","o","u","n","t">>),
    Lit(<<"Z","-","m","o","u","n","t">>),
    Lit(<<"X","-","m","o","u","n","t">>),
    Lit(<<"L","-","m","o","u","n","t">>), Lit(<<"M","F","T">>)>>), WB>>),
    TRUE, FALSE)

PATTERNS_PRICE ==
  RegExp(Alt(<<Cat(<<Lit(<<"d","o">>), Plus(WhiteSpace), Plus(Digits),
    Star(WhiteSpace), Opt(Alt(<<Lit(<<"z","l/">>),
    Lit(<<"p","l","n">>)>>))>>),
    Cat(<<Lit(<<"p","o","n","i","z.","e","j">>), Plus(WhiteSpace),
    Plus(Digits)>>), Cat(<<Lit(<<"t","a","n","i">>), Opt(Cls({"a","e"})),
    WB>>)>>), TRUE, FALSE)

ACCESSORY_TO_CATEGORY ==
  <<[k |-> <<"a","k","u","m","u","l","a","t","o","r">>,
     v |-> <<"A","k","u","m","u","l","a","t","o","r","y">>],
    [k |-> <<"a","k","u","m","u","l","a","t","o","r","y">>,
     v |-> <<"A","k","u","m","u","l","a","t","o","r","y">>],
    [k |-> <<"b","a","t","e","r","i","a">>,
     v |-> <<"A","k","u","m","u","l","a","t","o","r","y">>],
    [k |-> <<"b","a","t","e","r","i","e">>,
     v |-> <<"A","k","u","m","u","l","a","t","o","r","y">>],
    [k |-> <<"l/","a","d","o","w","a","r","k","a">>,
     v |-> <<"L/","a","d","o","w","a","r","k","i">>],
    [k |-> <<"l/","a","d","o","w","a","r","k","i">>,
     v |-> <<"L/","a","d","o","w","a","r","k","i">>],
    [k |-> <<"f","i","l","t","r">>,
     v |-> <<"F","i","l","t","r","y",","," ","p","o","k","r","y","w","k","i">>],
    [k |-> <<"f","i","l","t","r","y">>,
     v |-> <<"F","i","l","t","r","y",","," ","p","o","k","r","y","w","k","i">>],
    [k |-> <<"t","o","r","b","a">>,
     v |-> <<"T","o","r","b","y",","," ","p","l","e","c","a","k","i",","," ","w","a","l","i","z","k","i">>],
    [k |-> <<"t","o","r","b","y">>,
     v |-> <<"T","o","r","b","y",","," ","p","l","e","c","a","k","i",","," ","w","a","l","i","z","k","i">>],
    [k |-> <<"p","l","e","c","a","k">>,
     v |-> <<"T","o","r","b","y",","," ","p","l","e","c","a","k","i",","," ","w","a","l","i","z","k","i">>],
    [k |-> <<"p","l","e","c","a","k","i">>,
     v |-> <<"T","o","r","b","y",","," ","p","l","e","c","a","k","i",","," ","w","a","l","i","z","k","i">>],
    [k |-> <<"e","t","u","i">>,
     v |-> <<"E","t","u","i">>],
    [k |-> <<"g","r","i","p">>,
     v |-> <<"A","k","u","m","u","l","a","t","o","r","y">>],
    [k |-> <<"g","r","i","p","y">>,
     v |-> <<"A","k","u","m","u","l","a","t","o","r","y">>],
    [k |-> <<"k","l","a","t","k","a">>,
     v |-> <<"R","i","g","i"," ","i"," ","a","k","c","e","s","o","r","i","a">>],
    [k |-> <<"k","l","a","t","k","i">>,
     v |-> <<"R","i","g","i"," ","i"," ","a","k","c","e","s","o","r","i","a">>],
    [k |-> <<"o","s","l/","o","n","a">>,
     v |-> <<"A","k","c","e","s","o","r","i","a"," ","d","r","o","b","n","e">>],
    [k |-> <<"o","s","l/","o","n","y">>,
     v |-> <<"A","k","c","e","s","o","r","i","a"," ","d","r","o","b","n","e">>],
    [k |-> <<"p","a","s","e","k">>,
     v |-> <<"P","a","s","k","i"," ","i"," ","s","z","e","l","k","i">>],
    [k |-> <<"p","a","s","k","i">>,
     v |-> <<"P","a","s","k","i"," ","i"," ","s","z","e","l","k","i">>],
    [k |-> <<"a","k","c","e","s","o","r","i","a">>,
     v |-> Null]>>

(***************************************************************************)
(* JavaScript string and RegExp built-ins used by the services             *)
(***************************************************************************)
RECURSIVE TrimStart(_)
TrimStart(s) ==
  IF Len(s) > 0 /\ Head(s) \in WhiteSpace THEN TrimStart(Tail(s)) ELSE s

RECURSIVE TrimEnd(_)
TrimEnd(s) ==
  IF Len(s) > 0 /\ s[Len(s)] \in WhiteSpace
  THEN TrimEnd(SubSeq(s, 1, Len(s) - 1)) ELSE s

\* String.prototype.trim
trim(s) == TrimEnd(TrimStart(s))

\* s.startsWith(p)
startsWith(s, p) == Len(p) <= Len(s) /\ SubSeq(s, 1, Len(p)) = p

\* RegExpBuiltinExec: a global regular expression starts at its lastIndex
\* and stores the end of the match (0 on failure) back into it; any other
\* starts at 0 and leaves lastIndex alone.  key names the RegExp object in
\* the lastIndex table li.  Returns the match m and the table li after it.
RegExpExec(key, re, s, li) ==
  Const(SearchFrom(re, s, (IF re.g THEN li[key] ELSE 0) + 1), LAMBDA m :
    [m |-> m,
     li |-> IF re.g
            THEN [li EXCEPT ![key] = IF m = NoMatch THEN 0 ELSE m.end - 1]
            ELSE li])

\* s.replace(re, '') for a non-global re: the first match removed.
\* (RegExp.prototype[Symbol.replace] of a global re removes every match and
\* leaves lastIndex 0.)
RECURSIVE RemoveAll(_, _, _)
RemoveAll(re, s, from) ==
  Const(SearchFrom(re, s, from), LAMBDA m :
    IF m = NoMatch THEN SubSeq(s, from, Len(s))
    ELSE SubSeq(s, from, m.index - 1) \o
         (IF m.end > m.index THEN RemoveAll(re, s, m.end)
          ELSE IF m.index <= Len(s)
               THEN <<s[m.index]>> \o RemoveAll(re, s, m.index + 1)
               ELSE <<>>))

replaceWithEmpty(re, s) ==
  IF re.g THEN RemoveAll(re, s, 1)
  ELSE Const(SearchFrom(re, s, 1), LAMBDA m :
         IF m = NoMatch THEN s
         ELSE SubSeq(s, 1, m.index - 1) \o SubSeq(s, m.end, Len(s)))

\* s.replace(/\s+/g, ' ')
RECURSIVE CollapseWhiteSpace(_)
CollapseWhiteSpace(s) ==
  IF Len(s) = 0 THEN s
  ELSE IF Head(s) \in WhiteSpace
       THEN <<" ">> \o CollapseWhiteSpace(TrimStart(s))
       ELSE <<Head(s)>> \o CollapseWhiteSpace(Tail(s))

\* s.split(/\s+/): the pieces between maximal runs of white space, the
\* empty piece before a leading run and after a trailing run included.
RECURSIVE SplitWhiteSpace(_, _)
SplitWhiteSpace(s, piece) ==
  IF Len(s) = 0 THEN <<piece>>
  ELSE IF Head(s) \in WhiteSpace
       THEN <<piece>> \o SplitWhiteSpace(TrimStart(s), <<>>)
       ELSE SplitWhiteSpace(Tail(s), Append(piece, Head(s)))

split(s) == SplitWhiteSpace(s, <<>>)

\* words.join(' ')
RECURSIVE join(_)
join(words) ==
  IF Len(words) = 0 THEN <<>>
  ELSE IF Len(words) = 1 THEN words[1]
  ELSE words[1] \o <<" ">> \o join(Tail(words))

(***************************************************************************)
(* intent-classifier.js                                                    *)
(***************************************************************************)
\* The RegExp objects of the module, each with its own lastIndex.
RegExpKeys ==
  {<<n, 0>> : n \in {"BRAND_PATTERN", "USED_PATTERN", "NEW_PATTERN",
                     "ACCESSORY_PATTERN", "EAN", "SKU", "PARAMETRIC_APERTURE",
                     "PARAMETRIC_FOCAL", "PARAMETRIC_RES", "PARAMETRIC_FPS",
                     "PARAMETRIC_SENSOR", "PARAMETRIC_MOUNT", "PRICE"}}
  \cup {<<"BODY_MODEL_PATTERNS", k>> : k \in 1..Len(BODY_MODEL_PATTERNS)}
  \cup {<<"MODEL_TO_BRAND", k>> : k \in 1..Len(MODEL_TO_BRAND)}

\* lastIndex of every RegExp object when the module has been loaded.
FreshLastIndex == [k \in RegExpKeys |-> 0]

\* BODY_MODEL_PATTERNS[brandLower]: the index of the entry of brandLower, 0
\* when the table has none (undefined).
BodyModelKey(patterns, brandLower) ==
  Const({k \in 1..Len(patterns) : patterns[k].brand = brandLower}, LAMBDA ks :
    IF ks = {} THEN 0 ELSE CHOOSE k \in ks : TRUE)

detectBodyQuery(brand, afterBrand, li) ==
  Const(BodyModelKey(BODY_MODEL_PATTERNS, toLowerCase(brand)), LAMBDA k :
    IF k = 0 THEN [v |-> FALSE, li |-> li]
    ELSE Const(RegExpExec(<<"BODY_MODEL_PATTERNS", k>>,
                          BODY_MODEL_PATTERNS[k].pattern, afterBrand, li),
               LAMBDA r : [v |-> r.m # NoMatch, li |-> r.li]))

RECURSIVE InferFrom(_, _, _)
InferFrom(k, cleaned, li) ==
  IF k > Len(MODEL_TO_BRAND) THEN [found |-> FALSE, li |-> li]
  ELSE Const(MODEL_TO_BRAND[k], LAMBDA entry :
       Const(RegExpExec(<<"MODEL_TO_BRAND", k>>, entry.pattern, cleaned, li),
             LAMBDA r :
         IF r.m # NoMatch
         THEN Const(detectBodyQuery(entry.brand, cleaned, r.li), LAMBDA b :
                [found |-> TRUE, brand |-> entry.brand,
                 isBodyQuery |-> b.v, li |-> b.li])
         ELSE InferFrom(k + 1, cleaned, r.li)))

inferBrandFromModel(q, li) ==
  LET cleaned == trim(replaceWithEmpty(NEW_PATTERN,
                        replaceWithEmpty(USED_PATTERN, q)))
  IN InferFrom(1, cleaned, li)

\* 'used' | 'new' | null ("null")
detectConditionPreference(q, li) ==
  Const(RegExpExec(<<"USED_PATTERN", 0>>, USED_PATTERN, q, li), LAMBDA u :
    IF u.m # NoMatch THEN [v |-> "used", li |-> u.li]
    ELSE Const(RegExpExec(<<"NEW_PATTERN", 0>>, NEW_PATTERN, q, u.li), LAMBDA n :
           IF n.m # NoMatch THEN [v |-> "new", li |-> n.li]
           ELSE [v |-> "null", li |-> n.li]))

detectAccessoryPreference(q, li) ==
  Const(RegExpExec(<<"ACCESSORY_PATTERN", 0>>, ACCESSORY_PATTERN, q, li),
        LAMBDA a : [v |-> a.m # NoMatch, li |-> a.li])

AccessoryHas(word) ==
  \E k \in 1..Len(ACCESSORY_TO_CATEGORY) : ACCESSORY_TO_CATEGORY[k].k = word

AccessoryGet(word) ==
  ACCESSORY_TO_CATEGORY[
    CHOOSE k \in 1..Len(ACCESSORY_TO_CATEGORY) :
      ACCESSORY_TO_CATEGORY[k].k = word].v

\* The keys of the table, in insertion order, that start with word.
AccessoryPrefixKeys(word) ==
  {k \in 1..Len(ACCESSORY_TO_CATEGORY) :
     startsWith(ACCESSORY_TO_CATEGORY[k].k, word) /\ Len(word) >= 4}

RECURSIVE AccessoryCategoryOfWords(_)
AccessoryCategoryOfWords(words) ==
  IF Len(words) = 0 THEN Null
  ELSE Const(Head(words), LAMBDA word :
       Const(AccessoryPrefixKeys(word), LAMBDA ks :
         IF AccessoryHas(word) THEN AccessoryGet(word)
         ELSE IF ks # {}
              THEN ACCESSORY_TO_CATEGORY[
                     CHOOSE k \in ks : \A j \in ks : k <= j].v
              ELSE AccessoryCategoryOfWords(Tail(words))))

detectAccessoryCategory(q) == AccessoryCategoryOfWords(split(toLowerCase(q)))

stripModifierWords(q) ==
  trim(CollapseWhiteSpace(
    replaceWithEmpty(NEW_PATTERN,
      replaceWithEmpty(USED_PATTERN,
        replaceWithEmpty(ACCESSORY_PATTERN, q)))))

\* a || b || ... over RegExp.test: the tests run in order up to the first
\* that matches.
RECURSIVE TestAny(_, _, _)
TestAny(tests, s, li) ==
  IF Len(tests) = 0 THEN [v |-> FALSE, li |-> li]
  ELSE Const(RegExpExec(Head(tests).key, Head(tests).re, s, li), LAMBDA r :
         IF r.m # NoMatch THEN [v |-> TRUE, li |-> r.li]
         ELSE TestAny(Tail(tests), s, r.li))

ParametricTests ==
  <<[key |-> <<"PARAMETRIC_APERTURE", 0>>, re |-> PATTERNS_PARAMETRIC_APERTURE],
    [key |-> <<"PARAMETRIC_FOCAL", 0>>, re |-> PATTERNS_PARAMETRIC_FOCAL],
    [key |-> <<"PARAMETRIC_RES", 0>>, re |-> PATTERNS_PARAMETRIC_RES],
    [key |-> <<"PARAMETRIC_FPS", 0>>, re |-> PATTERNS_PARAMETRIC_FPS],
    [key |-> <<"PARAMETRIC_SENSOR", 0>>, re |-> PATTERNS_PARAMETRIC_SENSOR],
    [key |-> <<"PARAMETRIC_MOUNT", 0>>, re |-> PATTERNS_PARAMETRIC_MOUNT]>>

\* A lookup that finds no key.
CategoryHasNone(key) == FALSE

\* CATEGORY_NAMES.get(key) is truthy (no value of the table is empty).
CategoryHas(key) ==
  \E k \in 1..Len(CATEGORY_NAMES) : CATEGORY_NAMES[k].k = key

CategoryGet(key) ==
  CATEGORY_NAMES[CHOOSE k \in 1..Len(CATEGORY_NAMES) : CATEGORY_NAMES[k].k = key].v

DigitValue(c) == CHOOSE n \in 0..9 : <<"0","1","2","3","4","5","6","7","8","9">>[n + 1] = c

\* parseInt(s, 10) of the digits at the start of s from position i on,
\* given the value acc of the digits read so far.
RECURSIVE ParseDigits(_, _, _)
ParseDigits(s, i, acc) ==
  IF i <= Len(s) /\ s[i] \in Digits
  THEN ParseDigits(s, i + 1, acc * 10 + DigitValue(s[i]))
  ELSE acc

RECURSIVE SkipClass(_, _, _)
SkipClass(s, i, S) ==
  IF i <= Len(s) /\ s[i] \in S THEN SkipClass(s, i + 1, S) ELSE i

\* parseInt(priceMatch[1] || priceMatch[2], 10) || null for the match at
\* index of PATTERNS.PRICE in q; 0 stands for null (the expression never
\* yields the number 0).  The first alternative that matches at index,
\* "do <n>" or "ponizej <n>", gives the capture; "tani" captures nothing.
PriceCapture(q, index) ==
  LET doAlt == Cat(<<Lit(<<"d","o">>), Plus(WhiteSpace), Plus(Digits)>>)
      belowAlt == Cat(<<Lit(<<"p","o","n","i","z.","e","j">>), Plus(WhiteSpace),
                        Plus(Digits)>>)
  IN IF MatchFrom(<<doAlt>>, q, index, TRUE) # 0
     THEN ParseDigits(q, SkipClass(q, index + 2, WhiteSpace), 0)
     ELSE IF MatchFrom(<<belowAlt>>, q, index, TRUE) # 0
          THEN ParseDigits(q, SkipClass(q, index + 7, WhiteSpace), 0)
          ELSE 0

\* The body pattern's verdict passed on whatever the accessory preference.
BodyQueryDespiteAccessories(wantsAccessories, isBodyQuery) == isBodyQuery

\* wantsAccessories ? false : inferred.isBodyQuery
BodyQueryUnlessAccessories(wantsAccessories, isBodyQuery) ==
  IF wantsAccessories THEN FALSE ELSE isBodyQuery

\* classifyIntent(query) run with the RegExp objects' lastIndex table li:
\* the intent returned and the table after the call.
classifyIntent(query, li) ==
  Const(trim(IF query = Null \/ query = <<>> THEN <<>> ELSE query), LAMBDA q :
  Const(detectConditionPreference(q, li), LAMBDA cond :
  Const(detectAccessoryPreference(q, cond.li), LAMBDA acc :
  Const(cond.v, LAMBDA conditionPref :
  Const(acc.v, LAMBDA wantsAccessories :
  Const(IF wantsAccessories THEN detectAccessoryCategory(q) ELSE Null,
        LAMBDA accessoryCategory :
  \* RULE 1: EAN barcode
  Const(RegExpExec(<<"EAN", 0>>, PATTERNS_EAN, q, acc.li), LAMBDA ean :
  IF ean.m # NoMatch
  THEN [intent |-> [type |-> "EAN", query |-> q, conditionPref |-> conditionPref,
                    wantsAccessories |-> wantsAccessories],
        li |-> ean.li]
  \* RULE 2: SKU / manufacturer code
  ELSE Const(RegExpExec(<<"SKU", 0>>, PATTERNS_SKU, q, ean.li), LAMBDA sku :
  IF sku.m # NoMatch
  THEN [intent |-> [type |-> "SKU", query |-> q, conditionPref |-> conditionPref,
                    wantsAccessories |-> wantsAccessories],
        li |-> sku.li]
  \* RULE 3: MODEL or BRAND, brand name detected
  ELSE Const(RegExpExec(<<"BRAND_PATTERN", 0>>, BRAND_PATTERN, q, sku.li),
             LAMBDA brandMatch :
  IF brandMatch.m # NoMatch
  THEN Const(SubSeq(q, brandMatch.m.index, brandMatch.m.end - 1), LAMBDA brand :
       Const(trim(SubSeq(q, brandMatch.m.end, Len(q))), LAMBDA afterBrand :
       IF \E i \in 1..Len(afterBrand) :
            InClass(afterBrand[i], LowerLetters \cup Digits, TRUE)
       THEN Const(IF wantsAccessories THEN [v |-> FALSE, li |-> brandMatch.li]
                  ELSE detectBodyQuery(brand, afterBrand, brandMatch.li),
                  LAMBDA isBodyQuery :
              [intent |-> [type |-> "MODEL", query |-> q,
                           modelQuery |-> stripModifierWords(q), brand |-> brand,
                           isBodyQuery |-> isBodyQuery.v,
                           conditionPref |-> conditionPref,
                           wantsAccessories |-> wantsAccessories,
                           accessoryCategory |-> accessoryCategory],
               li |-> isBodyQuery.li])
       ELSE [intent |-> [type |-> "BRAND", query |-> q, brand |-> brand,
                         conditionPref |-> conditionPref,
                         wantsAccessories |-> wantsAccessories,
                         accessoryCategory |-> accessoryCategory],
             li |-> brandMatch.li]))
  \* RULE 3b: MODEL without explicit brand
  ELSE Const(inferBrandFromModel(q, brandMatch.li), LAMBDA inferred :
  IF inferred.found
  THEN [intent |-> [type |-> "MODEL", query |-> q,
                    modelQuery |-> stripModifierWords(q), brand |-> inferred.brand,
                    isBodyQuery |->
                      BodyQueryUnlessAccessories(wantsAccessories,
                                                 inferred.isBodyQuery),
                    conditionPref |-> conditionPref,
                    wantsAccessories |-> wantsAccessories,
                    accessoryCategory |-> accessoryCategory],
        li |-> inferred.li]
  \* RULE 4: PARAMETRIC
  ELSE Const(TestAny(ParametricTests, q, inferred.li), LAMBDA hasParam :
  IF hasParam.v
  THEN [intent |-> [type |-> "PARAMETRIC", query |-> q,
                    conditionPref |-> conditionPref,
                    wantsAccessories |-> wantsAccessories],
        li |-> hasParam.li]
  \* RULE 5: CATEGORY, exact match to known category
  ELSE Const(toLowerCase(q), LAMBDA qLower :
  IF CategoryHas(qLower)
  THEN [intent |-> [type |-> "CATEGORY", query |-> q, category |-> CategoryGet(qLower),
                    conditionPref |-> conditionPref,
                    wantsAccessories |-> wantsAccessories],
        li |-> hasParam.li]
  \* RULE 6: PRICE
  ELSE Const(RegExpExec(<<"PRICE", 0>>, PATTERNS_PRICE, q, hasParam.li),
             LAMBDA priceMatch :
  IF priceMatch.m # NoMatch
  THEN Const(trim(replaceWithEmpty(PATTERNS_PRICE, q)), LAMBDA cleanQuery :
         [intent |-> [type |-> "PRICE",
                      query |-> IF cleanQuery # <<>> THEN cleanQuery ELSE q,
                      maxPrice |-> PriceCapture(q, priceMatch.m.index),
                      conditionPref |-> conditionPref,
                      wantsAccessories |-> wantsAccessories],
          li |-> priceMatch.li])
  \* DEFAULT: GENERAL
  ELSE [intent |-> [type |-> "GENERAL", query |-> q, conditionPref |-> conditionPref,
                    wantsAccessories |-> wantsAccessories],
        li |-> priceMatch.li])))))))))))))

(***************************************************************************)
(* param-extractor.js                                                      *)
(***************************************************************************)
\* The patterns of EXTRACTORS without their flags; stripParams uses the
\* same sources with the g flag.
ApertureSource ==
  Cat(<<Lit(<<"f","/">>), Plus(Digits), Opt(Ch(".")), Star(Digits)>>)

FocalRangeSource ==
  Cat(<<Plus(Digits), Ch("-"), Plus(Digits), Star(WhiteSpace), Lit(<<"m","m">>)>>)

FocalSingleSource ==
  Cat(<<WB, Plus(Digits), Star(WhiteSpace), Lit(<<"m","m">>), WB>>)

VideoResolutionSource == Cat(<<WB, Plus(Digits), Cls({"k","K"}), WB>>)

VideoFpsSource == Cat(<<Plus(Digits), Star(WhiteSpace), Lit(<<"f","p","s">>)>>)

FullFrameAlternatives ==
  <<Cat(<<Lit(<<"f","u","l","l">>), Star(WhiteSpace), Lit(<<"f","r","a","m","e">>)>>),
    Cat(<<Lit(<<"p","e","l/","n","a">>), Star(WhiteSpace),
          Lit(<<"k","l","a","t","k","a">>)>>),
    Lit(<<"f","f">>)>>

ApscAlternatives == <<Cat(<<Lit(<<"a","p","s">>), Opt(Ch("-")), Ch("c")>>)>>

M43Alternatives ==
  <<Cat(<<Lit(<<"m","i","c","r","o">>), Star(WhiteSpace), Lit(<<"4","/","3">>)>>),
    Lit(<<"m","4","3">>), Lit(<<"m","f","t">>)>>

SensorFullFrameSource == Cat(<<WB, Alt(FullFrameAlternatives), WB>>)

SensorApscSource == Cat(<<WB, Alt(ApscAlternatives), WB>>)

SensorM43Source == Cat(<<WB, Alt(M43Alternatives), WB>>)

MountSource ==
  Cat(<<WB, Alt(<<Lit(<<"R","F">>), Lit(<<"E","F">>), Lit(<<"F","E">>),
    Lit(<<"E","-","m","o","u","n","t">>),
    Lit(<<"Z","-","m","o","u","n","t">>),
    Lit(<<"X","-","m","o","u","n","t">>),
    Lit(<<"L","-","m","o","u","n","t">>), Lit(<<"M","F","T">>)>>), WB>>)

FilterDiameterSource ==
  Cat(<<WB, Cls(Digits), Cls(Digits), Star(WhiteSpace), Lit(<<"m","m">>), WB>>)

FilterContextSource ==
  Alt(<<Lit(<<"f","i","l","t","r">>), Lit(<<"c","p","l">>), Lit(<<"n","d">>),
        Lit(<<"u","v">>), Lit(<<"p","o","l","a","r","y","z">>)>>)

MegapixelsSource ==
  Cat(<<Plus(Digits), Opt(Cat(<<Ch("."), Plus(Digits)>>)), Star(WhiteSpace),
        Alt(<<Lit(<<"M","P">>), Lit(<<"M","p","x">>),
              Lit(<<"m","e","g","a","p","i","k","s","e","l">>)>>)>>)

\* A pattern that is never consulted (the extractor has no contextPattern).
NoContext == RegExp(Eps, FALSE, FALSE)

\* One entry of EXTRACTORS; its extract function is Extract(name, ...).
Extractor(name, pat, ic) ==
  [name |-> name, pattern |-> RegExp(pat, ic, FALSE), hasContext |-> FALSE,
   contextPattern |-> NoContext]

\* An entry that always applies, its contextPattern left out.
FilterDiameterAnywhere == Extractor("filter_diameter", FilterDiameterSource, TRUE)

FilterDiameterExtractor ==
  [name |-> "filter_diameter", pattern |-> RegExp(FilterDiameterSource, TRUE, FALSE),
   hasContext |-> TRUE, contextPattern |-> RegExp(FilterContextSource, TRUE, FALSE)]

EXTRACTORS ==
  <<Extractor("aperture", ApertureSource, TRUE),
    Extractor("focal_range", FocalRangeSource, TRUE),
    Extractor("focal_single", FocalSingleSource, TRUE),
    Extractor("video_resolution", VideoResolutionSource, FALSE),
    Extractor("video_fps", VideoFpsSource, TRUE),
    Extractor("sensor_size", SensorFullFrameSource, TRUE),
    Extractor("sensor_size_apsc", SensorApscSource, TRUE),
    Extractor("sensor_size_m43", SensorM43Source, TRUE),
    Extractor("mount", MountSource, TRUE),
    FilterDiameterExtractor,
    Extractor("megapixels", MegapixelsSource, TRUE)>>

\* s.toUpperCase()
toUpperCase(s) == [i \in 1..Len(s) |-> ToUpperChar(s[i])]

\* The run of digits of q that starts at position i.
DigitsAt(q, i) == SubSeq(q, i, SkipClass(q, i, Digits) - 1)

\* digits without the zeros at their end
RECURSIVE DropTrailingZeros(_)
DropTrailingZeros(digits) ==
  IF Len(digits) > 0 /\ digits[Len(digits)] = "0"
  THEN DropTrailingZeros(SubSeq(digits, 1, Len(digits) - 1))
  ELSE digits

\* parseFloat of the capture \d+(?:\.\d+)? that starts at position i of q:
\* the whole part as a number and the digits of the fraction.
ParseFloat(q, i) ==
  Const(SkipClass(q, i, Digits), LAMBDA dot :
    [int |-> ParseDigits(q, i, 0),
     frac |-> IF dot + 1 <= Len(q) /\ q[dot] = "." /\ q[dot + 1] \in Digits
              THEN DropTrailingZeros(DigitsAt(q, dot + 1))
              ELSE << >>])

\* extractor.extract(match) of the extractor called name, for the match m
\* of its pattern in q: the fields it writes.  The groups (\d+) hold the
\* whole run of digits at their place, since what follows them in the
\* patterns starts with no digit.
Extract(name, q, m) ==
  CASE name = "aperture" ->
         "params.aperture" :> (<<"f","/">> \o SubSeq(q, m.index + 2, m.end - 1))
    [] name = "focal_range" ->
         ("params.focal_length_min" :> ParseDigits(q, m.index, 0)) @@
         ("params.focal_length_max" :>
            ParseDigits(q, SkipClass(q, m.index, Digits) + 1, 0))
    [] name = "focal_single" ->
         ("params.focal_length_min" :> ParseDigits(q, m.index, 0)) @@
         ("params.focal_length_max" :> ParseDigits(q, m.index, 0))
    [] name = "video_resolution" ->
         "params.video_resolution" :> (DigitsAt(q, m.index) \o <<"K">>)
    [] name = "video_fps" -> "params.video_fps" :> ParseDigits(q, m.index, 0)
    [] name = "sensor_size" -> "params.sensor_size" :> "Full Frame"
    [] name = "sensor_size_apsc" -> "params.sensor_size" :> "APS-C"
    [] name = "sensor_size_m43" -> "params.sensor_size" :> "Micro 4/3"
    [] name = "mount" ->
         "params.mount" :> toUpperCase(SubSeq(q, m.index, m.end - 1))
    [] name = "filter_diameter" ->
         "params.filter_diameter" :> ParseDigits(q, m.index, 0)
    [] name = "megapixels" -> "params.megapixels" :> ParseFloat(q, m.index)

\* Object.assign(params, fields)
ObjectAssign(params, fields) == fields @@ params

\* Whether the loop of extractParams reaches extractor.pattern.exec(q): the
\* extractor has no contextPattern, or its contextPattern matches q.
ContextPresent(extractor, q) ==
  ~extractor.hasContext \/ SearchFrom(extractor.contextPattern, q, 1) # NoMatch

\* The loop of extractParams from extractor k on.  The patterns have no g
\* flag, so test and exec start at 0 whatever went before.
RECURSIVE ExtractFrom(_, _, _)
ExtractFrom(k, q, params) ==
  IF k > Len(EXTRACTORS) THEN params
  ELSE Const(EXTRACTORS[k], LAMBDA extractor :
         IF ~ContextPresent(extractor, q) THEN ExtractFrom(k + 1, q, params)
         ELSE Const(SearchFrom(extractor.pattern, q, 1), LAMBDA match :
                IF match # NoMatch
                THEN ExtractFrom(k + 1, q,
                       ObjectAssign(params, Extract(extractor.name, q, match)))
                ELSE ExtractFrom(k + 1, q, params)))

\* The empty object {}.
EmptyObject == << >>

extractParams(query) ==
  ExtractFrom(1, IF query = Null THEN << >> ELSE query, EmptyObject)

\* The regular expressions of stripParams, in the order of its replaces.
StripPatterns ==
  <<RegExp(ApertureSource, TRUE, TRUE), RegExp(FocalRangeSource, TRUE, TRUE),
    RegExp(FocalSingleSource, TRUE, TRUE),
    RegExp(VideoResolutionSource, FALSE, TRUE),
    RegExp(VideoFpsSource, TRUE, TRUE),
    RegExp(Cat(<<WB, Alt(FullFrameAlternatives \o ApscAlternatives \o
                         M43Alternatives), WB>>), TRUE, TRUE),
    RegExp(MountSource, TRUE, TRUE)>>

\* q = q.replace(pattern k, '') for k, k + 1, ...
RECURSIVE StripFrom(_, _)
StripFrom(k, q) ==
  IF k > Len(StripPatterns) THEN q
  ELSE StripFrom(k + 1, replaceWithEmpty(StripPatterns[k], q))

stripParams(query) ==
  trim(CollapseWhiteSpace(StripFrom(1, IF query = Null THEN << >> ELSE query)))

(***************************************************************************)
(* query-builder.js                                                        *)
(***************************************************************************)
\* obj[name], undefined (Null) when obj has no such property.
Prop(obj, name) == IF name \in DOMAIN obj THEN obj[name] ELSE Null

\* Whether a text-valued property is truthy: neither undefined, null nor ''.
Truthy(text) == text # Null /\ text # << >>

BRAND_CASE_MAP ==
  <<[k |-> <<"d","j","i">>, v |-> <<"D","J","I">>],
    [k |-> <<"n","i","s","i">>, v |-> <<"N","I","S","I">>],
    [k |-> <<"n","a","n","l","i","t","e">>, v |-> <<"N","A","N","L","I","T","E">>],
    [k |-> <<"b","+","w">>, v |-> <<"B","+","W">>],
    [k |-> <<"g","o","p","r","o">>, v |-> <<"G","o","P","r","o">>],
    [k |-> <<"g","l","a","r","e","o","n","e">>, v |-> <<"G","l","a","r","e","O","n","e">>],
    [k |-> <<"p","e","a","k"," ","d","e","s","i","g","n">>,
     v |-> <<"P","e","a","k"," ","D","e","s","i","g","n">>],
    [k |-> <<"o","m"," ","s","y","s","t","e","m">>,
     v |-> <<"O","M"," ","S","y","s","t","e","m">>],
    [k |-> <<"e","a","s","y","c","o","v","e","r">>,
     v |-> <<"E","a","s","y","C","o","v","e","r">>],
    [k |-> <<"b","l","a","c","k","m","a","g","i","c">>,
     v |-> <<"B","l","a","c","k","m","a","g","i","c">>],
    [k |-> <<"v","e","n","u","s"," ","o","p","t","i","c","s">>,
     v |-> <<"V","e","n","u","s"," ","O","p","t","i","c","s">>],
    [k |-> <<"i","n","s","t","a","3","6","0">>,
     v |-> <<"I","n","s","t","a","3","6","0">>]>>

\* lower.replace(/\b\w/g, (c) => c.toUpperCase())
TitleCase(lower) ==
  [i \in 1..Len(lower) |->
     IF IsWordAt(lower, i) /\ ~IsWordAt(lower, i - 1)
     THEN ToUpperChar(lower[i]) ELSE lower[i]]

normalizeBrandCase(brand) ==
  Const(toLowerCase(brand), LAMBDA lower :
  Const({k \in 1..Len(BRAND_CASE_MAP) : BRAND_CASE_MAP[k].k = lower}, LAMBDA ks :
    IF ks # {} THEN BRAND_CASE_MAP[CHOOSE k \in ks : TRUE].v
    ELSE TitleCase(lower)))

\* One clause { term: { [field]: value } }.
Term(field, value) == [clause |-> "term", field |-> field, value |-> value]

\* One clause { range: { [field]: { [op]: value } } }.
RangeClause(field, bounds) == [clause |-> "range", field |-> field, range |-> bounds]

\* The clause of a term filter of buildFilterClauses, if the filter is set.
FilterTerm(filters, name, field) ==
  IF name \in DOMAIN filters /\ Truthy(filters[name])
  THEN <<Term(field, filters[name])>> ELSE << >>

\* The price range of buildFilterClauses: gte and lte as far as they are set.
PriceRange(filters) ==
  [op \in (IF "price_min" \in DOMAIN filters THEN {"gte"} ELSE {}) \cup
          (IF "price_max" \in DOMAIN filters THEN {"lte"} ELSE {}) |->
     IF op = "gte" THEN filters["price_min"] ELSE filters["price_max"]]

buildFilterClauses(filters) ==
  FilterTerm(filters, "brand", "brand") \o
  FilterTerm(filters, "category", "category") \o
  FilterTerm(filters, "availability", "availability") \o
  FilterTerm(filters, "mount", "compatible_mounts") \o
  (IF "price_min" \in DOMAIN filters \/ "price_max" \in DOMAIN filters
   THEN <<RangeClause("price", PriceRange(filters))>> ELSE << >>)

\* The properties extractParams can write, in the order in which a first
\* write inserts them: Object.entries(params) follows it.
ParamFields ==
  <<"params.aperture", "params.focal_length_min", "params.focal_length_max",
    "params.video_resolution", "params.video_fps", "params.sensor_size",
    "params.mount", "params.filter_diameter", "params.megapixels">>

RECURSIVE ParamFiltersFrom(_, _)
ParamFiltersFrom(k, params) ==
  IF k > Len(ParamFields) THEN << >>
  ELSE Const(ParamFields[k], LAMBDA field :
         (IF field \notin DOMAIN params THEN << >>
          ELSE IF field = "params.focal_length_min"
               THEN <<RangeClause(field, "lte" :> params[field])>>
          ELSE IF field = "params.focal_length_max"
               THEN <<RangeClause(field, "gte" :> params[field])>>
          ELSE <<Term(field, params[field])>>)
         \o ParamFiltersFrom(k + 1, params))

buildParamFilters(params) == ParamFiltersFrom(1, params)

\* { multi_match: { query, fields, type, ... } }; fields names the list.
MultiMatch(query, fields) ==
  [multi_match |-> [query |-> query, fields |-> fields, type |-> "best_fields"]]

\* { match_phrase: { [field]: { query, boost } } }
MatchPhrase(field, query, boost) ==
  [match_phrase |-> [field |-> field, query |-> query, boost |-> boost]]

\* { term: { [field]: { value, boost } } }
BoostedTerm(field, value, boost) ==
  [clause |-> "term", field |-> field, value |-> value, boost |-> boost]

\* { match_all: {} }
MatchAll == [match_all |-> << >>]

\* intent.params && Object.keys(intent.params).length > 0
HasParams(intent) == "params" \in DOMAIN intent /\ DOMAIN intent.params # {}

\* Lines 261-303: a model with accessories asked for.
ModelAccessoriesQuery(q, intent, modelBrand, modelQuery) ==
  Const(trim(replaceWithEmpty(RegExp(Lit(modelQuery), TRUE, FALSE), q)),
        LAMBDA accessoryPart :
    [bool |->
       [must |->
          <<[bool |-> [should |-> <<MultiMatch(modelQuery, "name"),
                                    [match |-> [field |-> "description",
                                                query |-> modelQuery]]>>,
                       minimum_should_match |-> 1]]>>
          \o (IF Truthy(Prop(intent, "accessoryCategory"))
              THEN <<Term("category", intent.accessoryCategory)>> ELSE << >>),
        should |->
          <<MultiMatch(q, "NAME_FIELDS")>>
          \o (IF accessoryPart # << >> THEN <<MultiMatch(accessoryPart, "name")>>
              ELSE << >>)
          \o <<MultiMatch(modelQuery, "name")>>
          \o (IF modelBrand # Null THEN <<BoostedTerm("brand", modelBrand, 8)>>
              ELSE << >>)]])

\* Lines 313-372: the standard MODEL query.
ModelQuery(q, intent, modelBrand) ==
  [bool |->
     [must |-> <<MultiMatch(IF HasParams(intent) THEN stripParams(q) ELSE q,
                            "name.exact")>>,
      should |->
        <<MatchPhrase("name.morfologik", q, 50), MatchPhrase("name.morfologik", q, 25),
          MatchPhrase("model_code", q, 30)>>
        \o (IF modelBrand # Null THEN <<BoostedTerm("brand", modelBrand, 15)>>
            ELSE << >>)]]

\* Lines 407-463.
CompoundQuery(q, intent) ==
  Const(IF Truthy(Prop(intent, "brand")) THEN normalizeBrandCase(intent.brand)
        ELSE Null, LAMBDA brandNorm :
  Const("compatibilityMode" \in DOMAIN intent /\ intent.compatibilityMode,
        LAMBDA compatibilityMode :
    [bool |->
       [must |->
          <<Term("category", Prop(intent, "detectedCategory"))>>
          \o (IF compatibilityMode /\ "compatMounts" \in DOMAIN intent
              THEN <<[clause |-> "terms", field |-> "compatible_mounts",
                      value |-> intent.compatMounts]>>
              ELSE << >>),
        should |->
          <<MatchPhrase("name.morfologik", q, 20),
            MultiMatch(IF Truthy(Prop(intent, "textQuery")) THEN intent.textQuery
                       ELSE q, "NAME_FIELDS")>>
          \o (IF brandNorm # Null /\ ~compatibilityMode
              THEN <<BoostedTerm("brand", brandNorm, 10)>> ELSE << >>),
        filter |->
          buildParamFilters(IF "params" \in DOMAIN intent THEN intent.params
                            ELSE EmptyObject)]]))

buildIntentQuery(q, intent) ==
  CASE intent.type = "EAN" -> Term("ean", q)
    [] intent.type = "SKU" ->
         [bool |->
            [must |-> <<MultiMatch(q, "NAME_FIELDS_LIGHT")>>,
             should |->
               <<BoostedTerm("sku", q, 200), BoostedTerm("sku", toUpperCase(q), 200),
                 BoostedTerm("sku", toLowerCase(q), 200),
                 BoostedTerm("manufacturer_code", q, 200),
                 BoostedTerm("manufacturer_code", toUpperCase(q), 200),
                 BoostedTerm("manufacturer_code", toLowerCase(q), 200),
                 BoostedTerm("model_code", q, 200),
                 BoostedTerm("model_code", toUpperCase(q), 200),
                 BoostedTerm("model_code", toLowerCase(q), 200),
                 MatchPhrase("name.morfologik", q, 50)>>]]
    [] intent.type = "MODEL" ->
         Const(IF Truthy(Prop(intent, "brand")) THEN normalizeBrandCase(intent.brand)
               ELSE Null, LAMBDA modelBrand :
         Const(IF Truthy(Prop(intent, "modelQuery")) THEN intent.modelQuery ELSE q,
               LAMBDA modelQuery :
           IF "wantsAccessories" \in DOMAIN intent /\ intent.wantsAccessories
              /\ modelQuery # q
           THEN ModelAccessoriesQuery(q, intent, modelBrand, modelQuery)
           ELSE ModelQuery(q, intent, modelBrand)))
    [] intent.type = "BRAND" ->
         [bool |->
            [should |-> <<BoostedTerm("brand", normalizeBrandCase(intent.brand), 20),
                          MultiMatch(q, "NAME_FIELDS")>>]]
    [] intent.type = "COMPOUND" -> CompoundQuery(q, intent)
    [] intent.type = "PARAMETRIC" ->
         Const(stripParams(q), LAMBDA textPart :
           IF textPart = << >> THEN MatchAll
           ELSE MultiMatch(textPart, "NAME_FIELDS"))
    [] intent.type = "CATEGORY" ->
         [function_score |->
            [query |-> [bool |-> [must |-> <<Term("category", intent.category)>>,
                                  should |-> <<MultiMatch(q, "name")>>]],
             params |-> [q |-> toLowerCase(q)],
             score_mode |-> "multiply", boost_mode |-> "multiply"]]
    [] intent.type = "PRICE" ->
         Const(Prop(intent, "query"), LAMBDA textPart :
           IF ~Truthy(textPart) \/ textPart = q THEN MatchAll
           ELSE MultiMatch(textPart, "NAME_FIELDS"))
    [] OTHER ->
         Const(IF HasParams(intent) THEN stripParams(q) ELSE q, LAMBDA generalTextQ :
           MultiMatch(IF generalTextQ # << >> THEN generalTextQ ELSE q,
                      "NAME_FIELDS"))

buildBaseMatchQuery(q, intent) ==
  IF intent.type = "EAN" THEN Term("ean", q)
  ELSE IF intent.type = "CATEGORY" THEN Term("category", intent.category)
  ELSE IF intent.type = "COMPOUND"
  THEN [bool |-> [must |-> <<Term("category", Prop(intent, "detectedCategory"))>>,
                  should |-> <<MultiMatch(q, "name.prefix")>>]]
  ELSE MultiMatch(q, "name.prefix")

\* The four bodies of the _msearch request (the headers carry the index
\* name alone).
buildAutocompleteQuery(q, intent, limit) ==
  <<[suggest |-> [prefix |-> q, size |-> limit], size |-> 0],
    [size |-> 0, query |-> buildBaseMatchQuery(q, intent), aggs |-> "categories"],
    [size |-> 0, query |-> buildBaseMatchQuery(q, intent), aggs |-> "brands"],
    [size |-> limit,
     query |-> [bool |-> [must |-> <<buildIntentQuery(q, intent)>>,
                          filter |-> <<Term("availability", "in_stock")>>]]]>>

\* Line 162 with extractParams never called on the fly.
SearchParamsOfIntentAlone(q, intent) ==
  IF intent.type = "COMPOUND" THEN EmptyObject
  ELSE IF "params" \in DOMAIN intent THEN intent.params
  ELSE EmptyObject

\* Line 162: the params the filters of buildSearchQuery are built from.
SearchParams(q, intent) ==
  IF intent.type = "COMPOUND" THEN EmptyObject
  ELSE IF "params" \in DOMAIN intent THEN intent.params
  ELSE IF intent.type = "PARAMETRIC" THEN extractParams(q)
  ELSE EmptyObject

buildSearchQuery(q, intent, options) ==
  [from |-> (options.page - 1) * options.perPage,
   size |-> options.perPage,
   query |->
     [bool |-> [must |-> <<buildIntentQuery(q, intent)>>,
                filter |-> buildFilterClauses(options.filters)
                           \o buildParamFilters(SearchParams(q, intent))]],
   sort |-> options.sort]

(***************************************************************************)
(* ranking.js                                                              *)
(***************************************************************************)
\* Weights are in hundredths: 130 is the weight 1.3.
\* One function { filter: { term: { [field]: value } }, weight }.
WeightWhen(field, value, weight) ==
  [filter |-> [field |-> field, value |-> value], weight |-> weight]

\* Lines 159-167: newWeight.
NewWeight(conditionPref) ==
  IF conditionPref = "used" THEN 55
  ELSE IF conditionPref = "new" THEN 150
  ELSE 130

\* usedWeight with the weights for 'used' left at their defaults.
UsedWeightNeverFlipped(conditionPref) ==
  IF conditionPref = "new" THEN 40
  ELSE 55

\* Lines 159-167: usedWeight.
UsedWeight(conditionPref) ==
  IF conditionPref = "used" THEN 180
  ELSE IF conditionPref = "new" THEN 40
  ELSE 55

\* The context functions with the accessory group given whenever
\* accessories are wanted, body query or not.
ContextFunctionsUnordered(isBodyQuery, wantsAccessories, isSKUQuery) ==
  (IF isSKUQuery THEN <<[script_score |-> "name length"]>> ELSE << >>)
  \o (IF isBodyQuery
      THEN <<WeightWhen("category", "BODY_PRODUCT_CATEGORIES", 800),
             WeightWhen("category", "lenses", 300),
             WeightWhen("category", "ACCESSORY_CATEGORIES", 8)>>
      ELSE << >>)
  \o (IF wantsAccessories
      THEN <<WeightWhen("category", "ACCESSORY_CATEGORIES", 500),
             WeightWhen("category", "BODY_PRODUCT_CATEGORIES", 10)>>
      ELSE << >>)

\* Lines 374-432: the functions that depend on the intent's context.
ContextFunctions(isBodyQuery, wantsAccessories, isSKUQuery) ==
  (IF isSKUQuery THEN <<[script_score |-> "name length"]>> ELSE << >>)
  \o (IF isBodyQuery
      THEN <<WeightWhen("category", "BODY_PRODUCT_CATEGORIES", 800),
             WeightWhen("category", "lenses", 300),
             WeightWhen("category", "ACCESSORY_CATEGORIES", 8)>>
      ELSE IF wantsAccessories
      THEN <<WeightWhen("category", "ACCESSORY_CATEGORIES", 500),
             WeightWhen("category", "BODY_PRODUCT_CATEGORIES", 10)>>
      ELSE << >>)

\* Lines 174-345: the functions that do not depend on the intent, up to
\* the rating.  A script is named after the field it reads.
SignalFunctions ==
  <<WeightWhen("availability", "in_stock", 150),
    WeightWhen("availability", "na_zamowienie", 80),
    WeightWhen("availability", "out_of_stock", 30),
    [script_score |-> "sales_30d"],
    [script_score |-> "sales_365d"],
    [script_score |-> "revenue"],
    [script_score |-> "ga4.popularity_score"],
    [script_score |-> "ga4.conversion_score"],
    [script_score |-> "ga4.trending_score"],
    [script_score |-> "margin_pct"],
    [gauss |-> "created_at"],
    WeightWhen("is_promo", "true", 130),
    [script_score |-> "rating"]>>

\* intent is a record; no intent (null) is a record without the fields read
\* here.
wrapWithFunctionScore(baseQuery, intent) ==
  Const("isBodyQuery" \in DOMAIN intent /\ intent.isBodyQuery, LAMBDA isBodyQuery :
  Const("wantsAccessories" \in DOMAIN intent /\ intent.wantsAccessories,
        LAMBDA wantsAccessories :
  Const(intent.type = "SKU", LAMBDA isSKUQuery :
  Const(IF "conditionPref" \in DOMAIN intent THEN intent.conditionPref ELSE "null",
        LAMBDA conditionPref :
    [function_score |->
       [query |-> baseQuery,
        score_mode |-> "multiply",
        boost_mode |-> "multiply",
        functions |->
          SignalFunctions
          \o <<WeightWhen("has_image", "false", 10),
               WeightWhen("condition", "new", NewWeight(conditionPref)),
               WeightWhen("condition", "used", UsedWeight(conditionPref)),
               WeightWhen("is_bestseller", "true", 115),
               WeightWhen("is_highlighted", "true", 110)>>
          \o ContextFunctions(isBodyQuery, wantsAccessories, isSKUQuery)]]))))

\* Scores and factors are in hundredths, rounded down: 117 is 1.17.
\* 100 * ln(x) for x = 1 .. 8.
LnTable == <<0, 69, 109, 138, 160, 179, 194, 207>>

\* 100 * ln(x), x >= 1: ln(x) = ln 2 + ln(x / 2) above the table.
RECURSIVE LnHundredths(_)
LnHundredths(x) ==
  IF x <= Len(LnTable) THEN LnTable[x] ELSE LnTable[2] + LnHundredths(x \div 2)

\* Math.log1p(n), n >= 0.
Log1p(n) == LnHundredths(1 + n)

\* The sales_30d script with "1.0 +" left out of its first return.
Sales30FactorWithoutOne(s30) ==
  IF s30 > 0 THEN (Log1p(s30) * 25) \div 100 ELSE 100

\* Lines 194-206: the sales_30d script.
Sales30Factor(s30) ==
  IF s30 > 0 THEN 100 + (Log1p(s30) * 25) \div 100 ELSE 100

\* doc.containsKey(field) && doc[field].size() > 0
HasValue(doc, field) == field \in DOMAIN doc

\* Lines 230-241: the revenue the revenue script takes the logarithm of.
RevenueOf(doc) ==
  Const(IF HasValue(doc, "revenue_30d") THEN doc["revenue_30d"] ELSE 0, LAMBDA rev :
    IF rev <= 0 /\ HasValue(doc, "revenue_365d") THEN doc["revenue_365d"] \div 12
    ELSE rev)

\* 1.0 + value * permille / 1000 for a positive value of the field, else 1.0.
Ga4Factor(doc, field, permille) ==
  IF HasValue(doc, field) /\ doc[field] > 0
  THEN 100 + (doc[field] * permille) \div 10
  ELSE 100

\* The value of the script named name for doc.
ScriptScore(name, doc) ==
  CASE name = "sales_30d" -> Sales30Factor(doc["sales_30d"])
    [] name = "sales_365d" ->
         IF HasValue(doc, "sales_365d") /\ doc["sales_365d"] > 0
         THEN 100 + (Log1p(doc["sales_365d"]) * 10) \div 100
         ELSE 100
    [] name = "revenue" ->
         IF RevenueOf(doc) > 0 THEN 100 + (Log1p(RevenueOf(doc)) * 25) \div 1000
         ELSE 100
    [] name = "ga4.popularity_score" -> Ga4Factor(doc, name, 8)
    [] name = "ga4.conversion_score" -> Ga4Factor(doc, name, 4)
    [] name = "ga4.trending_score" -> Ga4Factor(doc, name, 3)
    [] name = "margin_pct" -> 100 + (doc["margin_pct"] * 3) \div 10
    [] name = "rating" ->
         IF doc["review_count"] >= 3 THEN 100 + (doc["avg_rating"] - 300) \div 10
         ELSE 100
    [] name = "name length" ->
         IF doc["name_length"] < 15 THEN 300
         ELSE IF doc["name_length"] < 30 THEN 250
         ELSE IF doc["name_length"] < 45 THEN 180
         ELSE IF doc["name_length"] < 60 THEN 120
         ELSE 100

\* The factor function fn contributes for doc: its weight if its filter
\* matches and nothing (1.0) if not, the value of its script, or the decay
\* of the document's age.
FunctionFactor(fn, doc) ==
  IF "filter" \in DOMAIN fn
  THEN IF doc[fn.filter.field] = fn.filter.value THEN fn.weight ELSE 100
  ELSE IF "gauss" \in DOMAIN fn THEN doc["decay"]
  ELSE ScriptScore(fn.script_score, doc)

\* score_mode multiply, boost_mode multiply: score times the factors of
\* functions k, k + 1, ...
RECURSIVE MultiplyFrom(_, _, _, _)
MultiplyFrom(k, functions, doc, score) ==
  IF k > Len(functions) THEN score
  ELSE MultiplyFrom(k + 1, functions, doc,
                    (score * FunctionFactor(functions[k], doc)) \div 100)

\* The score of doc under a function_score query, relevance being the
\* score of its base query.
FunctionScore(wrapped, doc, relevance) ==
  MultiplyFrom(1, wrapped.function_score.functions, doc, relevance)

(***************************************************************************)
(* State                                                                   *)
(***************************************************************************)
VARIABLES
  lastIndex,        \* lastIndex of every RegExp object of the classifier
  input,            \* classifier alone: the argument of the call in progress
  output,           \* classifier alone: the intent the last call returned
  pc,               \* /search handler: where the request in progress stands
  req,              \* the request's query string: q, page, per_page, sort
  filters,          \* the handler's filters object
  intent,           \* the intent classifyIntent(q) returned
  esCalls,          \* the index calls of the request, in order
  primary,          \* the primary search's total and products
  spell,            \* recoverZeroResults: the accepted suggestion, or Null
  drop,             \* tryQueryRelaxation: the loop variable
  recovery,         \* the RecoveryOutcome recoverZeroResults returned
  response,         \* what the handler answered
  cache,            \* the search entries in Redis: key -> response
  requests,         \* number of requests received so far
  pinnedRules,      \* merchandising: pinned.json as loaded
  blacklistedRules, \* merchandising: blacklisted.json as loaded
  files,            \* merchandising: pinned.json and blacklisted.json on disk
  loaded,           \* merchandising: the load each table in memory came from
  client,           \* frontend: the ApiClient and the widget's dropdown
  cluster,          \* Elasticsearch: its indices and aliases
  searches,         \* frontend: RecentSearches.searches
  localStorage      \* frontend: the stored recent searches

\* What the search request path never writes: the rule files, the cluster's
\* indices and the browser.
others == <<files, loaded, client, cluster, searches, localStorage>>

vars ==
  <<lastIndex, input, output, pc, req, filters, intent, esCalls, primary, spell,
    drop, recovery, response, cache, requests, pinnedRules, blacklistedRules,
    others>>

\* A value that is not there yet (no intent, no outcome, no response).
None == [type |-> "none"]

\* The rule files, the cluster and the browser left out of a specification.
InitOthers ==
  /\ files = None
  /\ loaded = None
  /\ client = None
  /\ cluster = None
  /\ searches = << >>
  /\ localStorage = << >>

(***************************************************************************)
(* Bounds of the model                                                     *)
(***************************************************************************)
\* The index reports totals 0..MaxTotal.
MaxTotal == 2

\* Requests ask for pages 1..MaxPage.
MaxPage == 2

\* Requests handled in one behaviour.
MaxRequests == 2

(***************************************************************************)
(* The index (Elasticsearch), as the services see it                       *)
(***************************************************************************)
\* What a search call can come to: a failure (the client throws), or a
\* response with hits.total.value = total.
ESResponses ==
  {[ok |-> FALSE, total |-> 0]} \cup {[ok |-> TRUE, total |-> n] : n \in 0..MaxTotal}

Min(a, b) == IF a <= b THEN a ELSE b

\* hits.hits of a response with the given total to a body with from and
\* size: the documents ranked from+1 .. from+size, as far as there are any.
\* A document is named by its rank.
Hits(total, from, size) ==
  IF total > from
  THEN [i \in 1..Min(size, total - from) |-> [id |-> from + i]]
  ELSE <<>>

\* How a call went, for the record of calls.
ResultKind(r) ==
  IF ~r.ok THEN "fail" ELSE IF r.total > 0 THEN "hits" ELSE "empty"

\* Scores of a phrase suggestion, in hundredths.
Scores == {50, 51}

\* What the spell-check request can come to: a failure, or a response with
\* the options of suggest.spell_check[0] (size: 1, so at most one).
SuggestResponses(texts) ==
  {[ok |-> FALSE, options |-> <<>>], [ok |-> TRUE, options |-> <<>>]}
  \cup {[ok |-> TRUE, options |-> <<[text |-> t, score |-> s]>>] :
          t \in texts, s \in Scores}

(***************************************************************************)
(* cache.js and normalizers.js                                             *)
(***************************************************************************)
normalizeCacheKey(q) ==
  CollapseWhiteSpace(trim(toLowerCase(IF q = Null THEN <<>> ELSE q)))

\* The names a filters object (with sort and page added) can have, sorted.
SortedKeys ==
  <<"availability", "brand", "category", "mount", "page", "price_max",
    "price_min", "sort">>

\* The decimal digits of n.
RECURSIVE ToDigits(_)
ToDigits(n) ==
  IF n < 10 THEN <<<<"0","1","2","3","4","5","6","7","8","9">>[n + 1]>>
  ELSE Append(ToDigits(n \div 10), <<"0","1","2","3","4","5","6","7","8","9">>[(n % 10) + 1])

\* The JSON text of the value of property name: a number in decimal, a
\* text as it is, the sort order (a TLA+ string) as a text of one piece.
JsonValue(name, value) ==
  IF name \in {"page", "price_max", "price_min"} THEN ToDigits(value)
  ELSE IF name = "sort" THEN <<value>>
  ELSE value

RECURSIVE StringifyFrom(_, _)
StringifyFrom(obj, k) ==
  IF k > Len(SortedKeys) THEN <<>>
  ELSE (IF SortedKeys[k] \in DOMAIN obj
        THEN <<[name |-> SortedKeys[k],
                value |-> JsonValue(SortedKeys[k], obj[SortedKeys[k]])]>>
        ELSE <<>>) \o StringifyFrom(obj, k + 1)

\* JSON.stringify(filters, Object.keys(filters).sort()): the properties in
\* the order of their names.  The 8 hexadecimal digits of the MD5 digest are
\* taken to differ for different texts.
hashFilters(obj) == StringifyFrom(obj, 1)

\* SEARCH_PREFIX + normalizeCacheKey(query) + ':' + filterHash
SearchKey(query, f, sort, page) ==
  [q |-> normalizeCacheKey(query),
   hash |-> hashFilters(("sort" :> sort) @@ ("page" :> page) @@ f)]

(***************************************************************************)
(* merchandising.js                                                        *)
(***************************************************************************)
\* The ids of the first rule (in the table's order) whose key is the query
\* or a leading word sequence of it; [] when there is none.
RuleIds(rules, query) ==
  LET q == trim(toLowerCase(IF query = Null THEN <<>> ELSE query))
      ks == {k \in 1..Len(rules) :
               q = rules[k].key \/ startsWith(q, rules[k].key \o <<" ">>)}
  IN IF ks = {} THEN <<>>
     ELSE rules[CHOOSE k \in ks : \A j \in ks : k <= j].ids

getPinnedProducts(rules, query) == RuleIds(rules, query)

getBlacklistedProducts(rules, query) == RuleIds(rules, query)

\* products.filter(keep)
RECURSIVE FilterOut(_, _)
FilterOut(products, ids) ==
  IF Len(products) = 0 THEN <<>>
  ELSE (IF Head(products).id \in ids THEN <<>> ELSE <<Head(products)>>)
       \o FilterOut(Tail(products), ids)

\* The loop over pinnedIds: filtered is spliced and pinnedProducts grows.
RECURSIVE PinLoop(_, _, _, _)
PinLoop(pinnedIds, filtered, pinnedProducts, allProductsById) ==
  IF Len(pinnedIds) = 0 THEN pinnedProducts \o filtered
  ELSE LET pid == Head(pinnedIds)
           at == {i \in 1..Len(filtered) : filtered[i].id = pid}
       IN IF pid \in DOMAIN allProductsById
          THEN PinLoop(Tail(pinnedIds), filtered,
                       Append(pinnedProducts,
                              [allProductsById[pid] EXCEPT !.is_pinned = TRUE]),
                       allProductsById)
          ELSE IF at # {}
               THEN LET idx == CHOOSE i \in at : \A j \in at : i <= j
                    IN PinLoop(Tail(pinnedIds),
                               SubSeq(filtered, 1, idx - 1)
                                 \o SubSeq(filtered, idx + 1, Len(filtered)),
                               Append(pinnedProducts,
                                      [filtered[idx] EXCEPT !.is_pinned = TRUE]),
                               allProductsById)
               ELSE PinLoop(Tail(pinnedIds), filtered, pinnedProducts,
                            allProductsById)

Range(s) == {s[i] : i \in 1..Len(s)}

applyMerchandising(products, query, allProductsById, pinned, blacklisted) ==
  LET blacklistedIds == Range(getBlacklistedProducts(blacklisted, query))
      pinnedIds == getPinnedProducts(pinned, query)
      filtered == FilterOut(products, blacklistedIds)
  IN IF Len(pinnedIds) > 0
     THEN PinLoop(pinnedIds, filtered, <<>>, allProductsById)
     ELSE filtered

(***************************************************************************)
(* response-formatter.js                                                   *)
(***************************************************************************)
\* formatProducts(hits): the fields of a product the model follows.
formatProducts(hits) == [i \in 1..Len(hits) |-> [id |-> hits[i].id, is_pinned |-> FALSE]]

\* formatSearchResponse(query, o); did_you_mean is there when o.didYouMean
\* is truthy (Null stands for its absence).
formatSearchResponse(query, o) ==
  [status |-> "ok", query |-> query, total |-> o.total, page |-> o.page,
   per_page |-> o.perPage, products |-> o.products,
   did_you_mean |-> IF o.didYouMean # Null /\ o.didYouMean # << >>
                    THEN o.didYouMean ELSE Null]

(***************************************************************************)
(* zero-results.js: recoverZeroResults and the states of its cascade       *)
(***************************************************************************)
\* best.score > 0.5, with scores in hundredths.
SpellThreshold == 50

\* size of the category-fallback and bestsellers bodies.
FallbackSize == 10

\* A test that takes a score of exactly 0.5 too.
AcceptsSuggestionFromHalf(best, query) ==
  best.score >= SpellThreshold /\ best.text # query

\* trySpellCorrection's test on the top option of the suggestion.
AcceptsSuggestion(best, query) ==
  best.score > SpellThreshold /\ best.text # query

\* words.slice(0, words.length - drop).join(' ')
RelaxedText(words, d) == join(SubSeq(words, 1, Len(words) - d))

\* tryQueryRelaxation's loop from drop = d on: the first drop whose relaxed
\* text is searched (the empty ones are skipped), 0 when the loop ends.
NextDrop(words, d) ==
  LET ds == {e \in d..(Len(words) - 1) : RelaxedText(words, e) # <<>>}
  IN IF Len(words) <= 1 \/ ds = {} THEN 0
     ELSE CHOOSE e \in ds : \A f \in ds : e <= f

\* recoverZeroResults, line 48: the guard of the category fallback.
CategoryEligible(i) ==
  i.type = "CATEGORY" /\ i.category # Null /\ i.category # <<>>

\* A cascade without the category state.
AfterRelaxationToBestsellers(i) == "bestsellers"

\* The state after the relaxation state ended without a result.
AfterRelaxation(i) == IF CategoryEligible(i) THEN "category" ELSE "bestsellers"

\* The state after the spell-correction state ended without a result, and
\* the loop variable it starts with.
AfterSpell(query, i) ==
  LET d == NextDrop(split(query), 1)
  IN IF d = 0 THEN [pc |-> AfterRelaxation(i), drop |-> 0]
     ELSE [pc |-> "relax", drop |-> d]

\* The RecoveryOutcome objects recoverZeroResults returns.
RecoveryOutcome(products, total, didYouMean, fallbackType, relaxedQuery) ==
  [type |-> "outcome", products |-> products, total |-> total,
   didYouMean |-> didYouMean, fallbackType |-> fallbackType,
   relaxedQuery |-> relaxedQuery]

\* recoverZeroResults ended by an exception instead of a return.
Thrown == [type |-> "thrown"]

\* One index call in the record of calls.
Call(step, text, res, options) ==
  [step |-> step, text |-> text, res |-> res, options |-> options]

(***************************************************************************)
(* routes/search.js: GET /search                                           *)
(***************************************************************************)
\* from of buildSearchQuery.
From(page, perPage) == (page - 1) * perPage

\* Lines 32-38: the filters object of a request.
BuildFilters(query) ==
  [n \in (DOMAIN query) \cap {"brand", "category", "availability", "price_min",
                              "price_max", "mount"} |-> query[n]]

\* Lines 49-52: a PRICE intent with a maximum sets filters.price_max.
WithPriceIntent(f, i) ==
  IF i.type = "PRICE" /\ i.maxPrice # 0
  THEN [n \in DOMAIN f \cup {"price_max"} |->
          IF n = "price_max" THEN i.maxPrice ELSE f[n]]
  ELSE f

\* Lines 88-102: merchandising, the response object and its fallback_type
\* ("none" when the handler sets none).
BuildResponse(query, total, products, didYouMean, fallbackType) ==
  LET merchandised ==
        applyMerchandising(products, query.q, << >>, pinnedRules, blacklistedRules)
      formatted ==
        formatSearchResponse(query.q,
          [total |-> IF total # 0 THEN total ELSE Len(merchandised),
           page |-> query.page, perPage |-> query.per_page,
           products |-> merchandised, didYouMean |-> didYouMean])
  IN [n \in DOMAIN formatted \cup {"fallback_type"} |->
        IF n = "fallback_type" THEN fallbackType ELSE formatted[n]]

\* The reply of the framework to a handler that threw.
ErrorResponse(by) == [status |-> "error", thrownBy |-> by]

\* The texts requests are made with.
Queries ==
  {<<"x","x">>,
   <<"x","x"," ","y","y"," ">>,
   <<" ","x","x"," "," ","y","y">>,
   <<"l","a","m","p","y"," ","w","i","d","e","o">>,
   <<"x","x"," ","d","o"," ","5","0">>}

\* classifyIntent of the request texts with every lastIndex at 0, computed
\* once.
Classified == [q \in Queries |-> classifyIntent(q, FreshLastIndex)]

\* classifyIntent(q) as the handler calls it: the table above where it
\* applies, the computation itself elsewhere.
ClassifyRequest(q, li) ==
  IF li = FreshLastIndex /\ q \in Queries THEN Classified[q]
  ELSE classifyIntent(q, li)

\* The text a suggestion can carry besides the query itself.
OtherText == <<"l","a","m","p","y">>

\* per_page of the requests: one product a page, so that an index with
\* MaxTotal documents has pages of all kinds (full, last, beyond the end).
PerPages == {1}

\* The query strings of the requests.
QueryStrings ==
  {[q |-> q, page |-> p, per_page |-> n, sort |-> "relevance"] :
     q \in Queries, p \in 1..MaxPage, n \in PerPages}

\* The handler is entered: lines 31-38, up to the await of getCachedSearch.
Request(query) ==
  /\ pc = "idle"
  /\ requests < MaxRequests
  /\ requests' = requests + 1
  /\ req' = query
  /\ filters' = BuildFilters(query)
  /\ intent' = None
  /\ esCalls' = <<>>
  /\ primary' = None
  /\ spell' = Null
  /\ drop' = 0
  /\ recovery' = None
  /\ response' = None
  /\ pc' = "getCachedSearch"
  /\ UNCHANGED others
  /\ UNCHANGED <<lastIndex, input, output, cache, pinnedRules, blacklistedRules>>

\* getCachedSearch found the key: the handler returns the cached response.
CacheHit ==
  /\ pc = "getCachedSearch"
  /\ SearchKey(req.q, filters, req.sort, req.page) \in DOMAIN cache
  /\ response' = cache[SearchKey(req.q, filters, req.sort, req.page)]
  /\ pc' = "idle"
  /\ UNCHANGED others
  /\ UNCHANGED <<lastIndex, input, output, req, filters, intent, esCalls, primary,
                 spell, drop, recovery, cache, requests, pinnedRules,
                 blacklistedRules>>

\* getCachedSearch returned null (no such key, or redis.get threw): lines
\* 47-63, up to the await of the primary search.
CacheMiss ==
  /\ pc = "getCachedSearch"
  /\ \E redisOk \in BOOLEAN :
       redisOk => SearchKey(req.q, filters, req.sort, req.page) \notin DOMAIN cache
  /\ LET c == ClassifyRequest(req.q, lastIndex)
     IN /\ intent' = c.intent
        /\ lastIndex' = c.li
        /\ filters' = WithPriceIntent(filters, c.intent)
  /\ pc' = "primary"
  /\ UNCHANGED others
  /\ UNCHANGED <<input, output, req, esCalls, primary, spell, drop, recovery,
                 response, cache, requests, pinnedRules, blacklistedRules>>

\* A handler in which the primary search stands in a try block whose catch
\* goes on as after a search without hits.
AfterPrimaryCaught(r) ==
  IF ~r.ok \/ r.total = 0 THEN "spell" ELSE "setCachedSearch"

\* Where the handler goes when the primary search answered r: lines 66-78.
\* The await stands in no try block, so a failure is thrown on; a total of
\* 0 enters recoverZeroResults, whose first await is the spell-check
\* request.
AfterPrimary(r) ==
  IF ~r.ok THEN "throw" ELSE IF r.total = 0 THEN "spell" ELSE "setCachedSearch"

\* The primary search answered: lines 66-86.
PrimarySearch ==
  /\ pc = "primary"
  /\ \E r \in ESResponses :
       /\ esCalls' = Append(esCalls, Call("primary", req.q, ResultKind(r), <<>>))
       /\ IF AfterPrimary(r) = "throw"
          THEN /\ response' = ErrorResponse("primary")
               /\ pc' = "idle"
               /\ UNCHANGED primary
          ELSE /\ primary' =
                    [total |-> r.total,
                     products |->
                       formatProducts(Hits(r.total, From(req.page, req.per_page),
                                           req.per_page))]
               /\ pc' = AfterPrimary(r)
               /\ response' =
                    IF AfterPrimary(r) = "spell" THEN response
                    ELSE BuildResponse(req, r.total, primary'.products, Null,
                                       "none")
  /\ UNCHANGED others
  /\ UNCHANGED <<lastIndex, input, output, req, filters, intent, spell, drop,
                 recovery, cache, requests, pinnedRules, blacklistedRules>>

\* recoverZeroResults returned outcome: lines 80-102 of the handler, up to
\* the await of setCachedSearch.
Recovered(outcome) ==
  /\ recovery' = outcome
  /\ response' = BuildResponse(req, primary.total,
                               formatProducts(outcome.products),
                               outcome.didYouMean, outcome.fallbackType)
  /\ pc' = "setCachedSearch"

\* The products a search of the GENERAL pipeline with the request's options
\* returns.
PageOf(total) == Hits(total, From(req.page, req.per_page), req.per_page)

\* trySpellCorrection: the spell-check request answered.
SpellSuggest ==
  /\ pc = "spell"
  /\ \E r \in SuggestResponses({req.q, OtherText}) :
       LET accepted == /\ r.ok
                       /\ Len(r.options) > 0
                       /\ AcceptsSuggestion(r.options[1], req.q)
           next == AfterSpell(req.q, intent)
       IN /\ esCalls' = Append(esCalls,
                               Call("spell", req.q,
                                    IF r.ok THEN "ok" ELSE "fail", r.options))
          /\ spell' = IF accepted THEN r.options[1].text ELSE Null
          /\ pc' = IF accepted THEN "rerun" ELSE next.pc
          /\ drop' = IF accepted THEN drop ELSE next.drop
  /\ UNCHANGED others
  /\ UNCHANGED <<lastIndex, input, output, req, filters, intent, primary,
                 recovery, response, cache, requests, pinnedRules,
                 blacklistedRules>>

\* Lines 25-38: the search of the corrected text answered. The call stands
\* in no try block: its failure leaves recoverZeroResults, and the handler,
\* as an exception.
SpellRerun ==
  /\ pc = "rerun"
  /\ \E r \in ESResponses :
       LET next == AfterSpell(req.q, intent)
       IN /\ esCalls' = Append(esCalls, Call("rerun", spell, ResultKind(r), <<>>))
          /\ IF ~r.ok
             THEN /\ recovery' = Thrown
                  /\ response' = ErrorResponse("recoverZeroResults")
                  /\ pc' = "idle"
                  /\ UNCHANGED drop
             ELSE IF r.total > 0
             THEN /\ Recovered(RecoveryOutcome(PageOf(r.total), r.total, spell,
                                               "spell_correction", Null))
                  /\ UNCHANGED drop
             ELSE /\ pc' = next.pc
                  /\ drop' = next.drop
                  /\ UNCHANGED <<recovery, response>>
  /\ UNCHANGED others
  /\ UNCHANGED <<lastIndex, input, output, req, filters, intent, primary, spell,
                 cache, requests, pinnedRules, blacklistedRules>>

\* tryQueryRelaxation: the search of the relaxed text of this drop answered.
RelaxSearch ==
  /\ pc = "relax"
  /\ \E r \in ESResponses :
       LET words == split(req.q)
           relaxed == RelaxedText(words, drop)
           d == NextDrop(words, drop + 1)
       IN /\ esCalls' = Append(esCalls, Call("relax", relaxed, ResultKind(r), <<>>))
          /\ IF r.ok /\ r.total > 0
             THEN /\ Recovered(RecoveryOutcome(PageOf(r.total), r.total, Null,
                                               "query_relaxation", relaxed))
                  /\ UNCHANGED drop
             ELSE /\ pc' = IF d = 0 THEN AfterRelaxation(intent) ELSE "relax"
                  /\ drop' = d
                  /\ UNCHANGED <<recovery, response>>
  /\ UNCHANGED others
  /\ UNCHANGED <<lastIndex, input, output, req, filters, intent, primary, spell,
                 cache, requests, pinnedRules, blacklistedRules>>

\* tryCategoryFallback: the search of the category answered.
CategorySearch ==
  /\ pc = "category"
  /\ \E r \in ESResponses :
       /\ esCalls' = Append(esCalls,
                            Call("category", intent.category, ResultKind(r), <<>>))
       /\ IF r.ok /\ r.total > 0
          THEN Recovered(RecoveryOutcome(Hits(r.total, 0, FallbackSize), r.total,
                                         Null, "category_fallback", Null))
          ELSE /\ pc' = "bestsellers"
               /\ UNCHANGED <<recovery, response>>
  /\ UNCHANGED others
  /\ UNCHANGED <<lastIndex, input, output, req, filters, intent, primary, spell,
                 drop, cache, requests, pinnedRules, blacklistedRules>>

\* getBestsellers: the search of the bestsellers answered.
Bestsellers ==
  /\ pc = "bestsellers"
  /\ \E r \in ESResponses :
       /\ esCalls' = Append(esCalls, Call("bestsellers", <<>>, ResultKind(r), <<>>))
       /\ IF r.ok
          THEN Recovered(RecoveryOutcome(Hits(r.total, 0, FallbackSize), r.total,
                                         Null, "bestsellers", Null))
          ELSE Recovered(RecoveryOutcome(<<>>, 0, Null, "error", Null))
  /\ UNCHANGED others
  /\ UNCHANGED <<lastIndex, input, output, req, filters, intent, primary, spell,
                 drop, cache, requests, pinnedRules, blacklistedRules>>

\* setCachedSearch ended (redis.set done, or its failure caught) and the
\* handler returns the response: lines 105-107.
SetCachedSearch ==
  /\ pc = "setCachedSearch"
  /\ \E redisOk \in BOOLEAN :
       LET key == SearchKey(req.q, filters, req.sort, req.page)
       IN cache' = IF redisOk
                   THEN [k \in DOMAIN cache \cup {key} |->
                           IF k = key THEN response ELSE cache[k]]
                   ELSE cache
  /\ pc' = "idle"
  /\ UNCHANGED others
  /\ UNCHANGED <<lastIndex, input, output, req, filters, intent, esCalls, primary,
                 spell, drop, recovery, response, requests, pinnedRules,
                 blacklistedRules>>

(***************************************************************************)
(* The server handling /search requests one after another                  *)
(***************************************************************************)
\* The rules loaded at import from pinned.json and blacklisted.json: one
\* rule each, which some of the request texts meet and others do not.
PinnedTable == <<[key |-> <<"x","x">>, ids |-> <<2>>]>>

BlacklistedTable == <<[key |-> <<"l","a","m","p","y">>, ids |-> <<1>>]>>

Init ==
  /\ lastIndex = FreshLastIndex
  /\ input = Null
  /\ output = None
  /\ pc = "idle"
  /\ req = None
  /\ filters = << >>
  /\ intent = None
  /\ esCalls = << >>
  /\ primary = None
  /\ spell = Null
  /\ drop = 0
  /\ recovery = None
  /\ response = None
  /\ cache = << >>
  /\ requests = 0
  /\ pinnedRules = PinnedTable
  /\ blacklistedRules = BlacklistedTable
  /\ InitOthers

Next ==
  \/ \E query \in QueryStrings : Request(query)
  \/ CacheHit
  \/ CacheMiss
  \/ PrimarySearch
  \/ SpellSuggest
  \/ SpellRerun
  \/ RelaxSearch
  \/ CategorySearch
  \/ Bestsellers
  \/ SetCachedSearch

Spec == Init /\ [][Next]_vars

(***************************************************************************)
(* The classifier called on its own, text after text                       *)
(***************************************************************************)
\* Words after the first piece of a text.
MaxTail == 1

\* First pieces of the texts: codes and near misses of codes, brands, model
\* names, parameters, category names, price phrases, and a word that is
\* none of them.
HeadPieces ==
  {<<"1","2","3","4","5","6","7","8">>,
   <<"1","2","3","4","5","6","7","8","9","0","1","2","3">>,
   <<"1","2","3","4","5","6","7">>, <<"l","p","-","e","6">>,
   <<"L","P","_","E","6","N","H">>, <<"s","o","n","y","-","a","7">>,
   <<"d","j","i","-","m","i","n","i","3">>, <<"e","t","u","i","-","5">>,
   <<"a","b","c","d","e","-","1">>, <<"n","p","-","f","w">>,
   <<"a","b","-","c"," ","1">>, <<"c","a","n","o","n">>,
   <<"g","o","p","r","o">>, <<"S","o","n","y">>, <<"a","7">>,
   <<"e","o","s"," ","r","6">>, <<"s","o","n","y"," ","a","7">>,
   <<"e","o","s"," ","r","6"," ","e","t","u","i">>,
   <<"c","a","n","o","n"," ","f","i","l","t">>,
   <<"a","l","p","h","a">>, <<"5","0","m","m">>,
   <<"f","/","2",".","8">>, <<"4","K">>, <<"R","F">>,
   <<"s","t","a","t","y","w","y">>,
   <<"l","a","m","p","y"," ","w","i","d","e","o">>, <<"f","i","l","t","r">>,
   <<"t","a","n","i">>, <<"d","o"," ","5","0","0">>,
   <<"p","o","n","i","z.","e","j"," ","1","0","0","0">>, <<"x","x">>}

\* Pieces that follow: modifier words, and words of the other kinds.
TailPieces ==
  {<<"u","z.","y","w","a","n","y">>, <<"n","o","w","y">>,
   <<"a","k","u","m","u","l","a","t","o","r">>, <<"c","a","n","o","n">>,
   <<"5","0","m","m">>, <<"d","o"," ","5","0","0">>}

\* A first piece followed by n tail pieces at most, single spaces between.
RECURSIVE Phrases(_)
Phrases(n) ==
  IF n = 0 THEN HeadPieces
  ELSE Phrases(n - 1) \cup {p \o <<" ">> \o t : p \in Phrases(n - 1), t \in TailPieces}

\* The arguments of the calls: the phrases, the first pieces with white
\* space around them, the empty text, texts of white space alone, and null.
Texts ==
  Phrases(MaxTail)
  \cup {<<" ">> \o p \o <<" ", " ">> : p \in HeadPieces}
  \cup {<< >>, <<" ">>, <<"\t", " ">>, Null}

InitClassify ==
  /\ lastIndex = FreshLastIndex
  /\ input = Null
  /\ output = None
  /\ pc = "ready"
  /\ req = None
  /\ filters = << >>
  /\ intent = None
  /\ esCalls = << >>
  /\ primary = None
  /\ spell = Null
  /\ drop = 0
  /\ recovery = None
  /\ response = None
  /\ cache = << >>
  /\ requests = 0
  /\ pinnedRules = << >>
  /\ blacklistedRules = << >>
  /\ InitOthers

\* classifyIntent is called with text; requests tells the first call (1)
\* from the later ones (2).
ClassifyCall(text) ==
  /\ pc = "ready"
  /\ input' = text
  /\ output' = None
  /\ requests' = IF requests = 0 THEN 1 ELSE 2
  /\ pc' = "classifyIntent"
  /\ UNCHANGED others
  /\ UNCHANGED <<lastIndex, req, filters, intent, esCalls, primary, spell, drop,
                 recovery, response, cache, pinnedRules, blacklistedRules>>

\* The call returns its intent; the RegExp objects keep their lastIndex.
ClassifyReturn ==
  /\ pc = "classifyIntent"
  /\ LET c == classifyIntent(input, lastIndex)
     IN /\ output' = c.intent
        /\ lastIndex' = c.li
  /\ pc' = "ready"
  /\ UNCHANGED others
  /\ UNCHANGED <<input, req, filters, intent, esCalls, primary, spell, drop,
                 recovery, response, cache, requests, pinnedRules,
                 blacklistedRules>>

NextClassify ==
  \/ \E text \in Texts : ClassifyCall(text)
  \/ ClassifyReturn

SpecClassify == InitClassify /\ [][NextClassify]_vars

(***************************************************************************)
(* Properties of the classifier                                            *)
(***************************************************************************)
\* A call of classifyIntent has returned.
ClassifyReturned == pc = "ready" /\ requests > 0

\* (query || '').trim()
Trimmed(text) == trim(IF text = Null THEN << >> ELSE text)

\* The text is empty or white space alone, or there is no text.
Blank(text) == text = Null \/ \A i \in 1..Len(text) : text[i] \in WhiteSpace

IntentTypes ==
  {"EAN", "SKU", "MODEL", "BRAND", "PARAMETRIC", "CATEGORY", "PRICE", "GENERAL"}

\* C8: classifyIntent is total and stateless.  Whenever a call has
\* returned, its intent has one of the eight types (COMPOUND is none of
\* them), it is GENERAL for a text that is empty, white space alone or
\* null, and it is the intent the very first call of the process would
\* have returned for the same text, whatever was classified before.
C8_TotalAndStateless ==
  ClassifyReturned =>
    /\ output.type \in IntentTypes
    /\ Blank(input) => output.type = "GENERAL"
    /\ output = classifyIntent(input, FreshLastIndex).intent

\* A later call, after other texts, has classified a text of white space.
C8_Witness ==
  /\ ClassifyReturned
  /\ requests = 2
  /\ input = <<"\t", " ">>
  /\ output.type = "GENERAL"

\* re.test(s) on a RegExp without state.
Matches(re, s) == SearchFrom(re, s, 1) # NoMatch

\* The rules of the cascade, in the order in which the claim names them.
RuleOrder ==
  <<"EAN", "SKU", "EXPLICIT_BRAND", "INFERRED_BRAND", "PARAMETRIC", "CATEGORY",
    "PRICE", "GENERAL">>

\* The predicate of each rule on the trimmed text q.  The inferred-brand
\* rule looks at q without its condition words.
RuleMatches(rule, q) ==
  CASE rule = "EAN" -> Matches(PATTERNS_EAN, q)
    [] rule = "SKU" -> Matches(PATTERNS_SKU, q)
    [] rule = "EXPLICIT_BRAND" -> Matches(BRAND_PATTERN, q)
    [] rule = "INFERRED_BRAND" ->
         LET cleaned == trim(replaceWithEmpty(NEW_PATTERN,
                               replaceWithEmpty(USED_PATTERN, q)))
         IN \E k \in 1..Len(MODEL_TO_BRAND) :
              Matches(MODEL_TO_BRAND[k].pattern, cleaned)
    [] rule = "PARAMETRIC" ->
         \E k \in 1..Len(ParametricTests) : Matches(ParametricTests[k].re, q)
    [] rule = "CATEGORY" ->
         \E k \in 1..Len(CATEGORY_NAMES) : CATEGORY_NAMES[k].k = toLowerCase(q)
    [] rule = "PRICE" -> Matches(PATTERNS_PRICE, q)
    [] rule = "GENERAL" -> TRUE

\* The intent types a rule produces.
RuleTypes(rule) ==
  CASE rule = "EXPLICIT_BRAND" -> {"MODEL", "BRAND"}
    [] rule = "INFERRED_BRAND" -> {"MODEL"}
    [] OTHER -> {rule}

\* The first rule, in the order, whose predicate matches q.
FirstRule(q) ==
  RuleOrder[CHOOSE k \in 1..Len(RuleOrder) :
              /\ RuleMatches(RuleOrder[k], q)
              /\ \A j \in 1..(k - 1) : ~RuleMatches(RuleOrder[j], q)]

\* C9: the type of the intent is the type of the first rule, in the order
\* EAN, SKU, explicit brand, inferred brand, PARAMETRIC, CATEGORY, PRICE,
\* GENERAL, whose predicate matches the trimmed text, whatever later rules
\* match too.
C9_FirstMatchingRule ==
  ClassifyReturned => output.type \in RuleTypes(FirstRule(Trimmed(input)))

\* "gopro", a known brand and a key of the category table, came out BRAND.
C9_Witness ==
  /\ ClassifyReturned
  /\ input = <<"g","o","p","r","o">>
  /\ RuleMatches("CATEGORY", Trimmed(input))
  /\ output.type = "BRAND"

\* The shape of C10: 2 to 4 letters, '-' or '_', then letters and digits
\* with a digit among them.
SkuShaped(text) ==
  /\ text # Null
  /\ \E n \in 2..4 :
       /\ Len(text) >= n + 2
       /\ \A i \in 1..n : text[i] \in LowerLetters \cup UpperLetters
       /\ text[n + 1] \in {"-", "_"}
       /\ \A i \in (n + 2)..Len(text) :
            text[i] \in LowerLetters \cup UpperLetters \cup Digits
       /\ \E i \in (n + 2)..Len(text) : text[i] \in Digits

\* C10: every text of the shape <2-4 letters><- or _><letters and digits
\* with a digit>, in any letter case, is classified SKU, a brand or a
\* category name inside it notwithstanding.
C10_SkuShapeIsSku ==
  (ClassifyReturned /\ SkuShaped(input)) => output.type = "SKU"

\* "sony-a7", which holds the brand sony, came out SKU.
C10_Witness ==
  /\ ClassifyReturned
  /\ input = <<"s","o","n","y","-","a","7">>
  /\ Matches(BRAND_PATTERN, input)
  /\ output.type = "SKU"

\* C11: in every intent classifyIntent returns, isBodyQuery = true implies
\* wantsAccessories = false: when the accessory preference is detected, a
\* MODEL intent has isBodyQuery = false, with an explicit or an inferred
\* brand, whether or not the remainder matches the brand's body pattern.
C11_AccessoriesOverrideBody ==
  (ClassifyReturned /\ output.type = "MODEL") =>
    /\ output.isBodyQuery => ~output.wantsAccessories
    /\ output.wantsAccessories => output.isBodyQuery = FALSE

\* A text without brand name whose model word matches the inferred brand's
\* body pattern came out with the accessory preference and isBodyQuery false.
C11_Witness ==
  /\ ClassifyReturned
  /\ output.type = "MODEL"
  /\ output.wantsAccessories
  /\ ~Matches(BRAND_PATTERN, Trimmed(input))
  /\ inferBrandFromModel(Trimmed(input), FreshLastIndex).isBodyQuery
  /\ output.isBodyQuery = FALSE

\* C12: for every MODEL intent classifyIntent returns, modelQuery is the
\* text with the accessory and condition modifier words removed: no word of
\* modelQuery matches the accessory, used-condition or new-condition
\* pattern, however many such words the text holds.
C12_ModelQueryStripped ==
  (ClassifyReturned /\ output.type = "MODEL") =>
    /\ ~Matches(ACCESSORY_PATTERN, output.modelQuery)
    /\ ~Matches(USED_PATTERN, output.modelQuery)
    /\ ~Matches(NEW_PATTERN, output.modelQuery)

\* The words of the text that are keys of the accessory-keyword table.
ExactAccessoryWords(text) ==
  {w \in Range(split(toLowerCase(Trimmed(text)))) : AccessoryHas(w)}

\* C13: accessory-category detection looks words up exactly first and by
\* prefix after: when the accessory preference is detected and some word of
\* the text is a key of the accessory-keyword table, accessoryCategory is
\* the category of an exactly matching word; a prefix match counts only
\* when no word matches a key exactly.
C13_ExactBeforePrefix ==
  (/\ ClassifyReturned
   /\ "accessoryCategory" \in DOMAIN output
   /\ output.wantsAccessories
   /\ ExactAccessoryWords(input) # {}) =>
    output.accessoryCategory \in
      {AccessoryGet(w) : w \in ExactAccessoryWords(input)}

(***************************************************************************)
(* Properties of the recovery cascade                                      *)
(***************************************************************************)
\* The handler of a request has ended, by a return or by an exception.
Answered == pc = "idle" /\ requests > 0

\* The index calls recoverZeroResults has made so far: those after the
\* primary search.
RecoveryCalls == SubSeq(esCalls, 2, Len(esCalls))

\* The state of the cascade a call belongs to, by its number in the order.
StateOf(step) ==
  CASE step = "spell" -> 1
    [] step = "rerun" -> 1
    [] step = "relax" -> 2
    [] step = "category" -> 3
    [] step = "bestsellers" -> 4

\* The fallbackType the claim gives a state that found a hit.
FallbackOf(step) ==
  CASE step = "rerun" -> "spell_correction"
    [] step = "relax" -> "query_relaxation"
    [] step = "category" -> "category_fallback"
    [] step = "bestsellers" -> "bestsellers"

\* The calls of RecoveryCalls made by the given step.
CallsOf(step) == {k \in 1..Len(RecoveryCalls) : RecoveryCalls[k].step = step}

\* C1 (as the claim states it): recoverZeroResults never ends by an
\* exception, whichever of its index calls fail; a failed call of the
\* spell-correction, relaxation or category state is followed by the rest of
\* the cascade, and a failed bestsellers call gives fallbackType error with
\* no products.
C1_NeverPropagates ==
  /\ recovery # Thrown
  /\ Answered =>
       \A k \in 1..Len(RecoveryCalls) :
         RecoveryCalls[k].res = "fail" =>
           IF RecoveryCalls[k].step = "bestsellers"
           THEN /\ recovery # None
                /\ recovery.fallbackType = "error"
                /\ recovery.products = << >>
           ELSE k < Len(RecoveryCalls)

\* The calls a finished relaxation state has made for the text: one for
\* each number of dropped words that leaves a non-empty text.
RelaxationCalls(text) ==
  LET words == split(text)
  IN Cardinality({d \in 1..(Len(words) - 1) : RelaxedText(words, d) # << >>})

\* C2: the states are attempted in the order spell correction, relaxation,
\* category, bestsellers.  The calls come in that order, beginning with the
\* spell-check request; a call of a later state comes only after the
\* earlier states have finished (relaxation has searched all its texts, the
\* category state has been tried for a CATEGORY intent) and none of their
\* searches had a hit; a search with a hit is the last call and fixes
\* fallbackType; the category query is made only for a CATEGORY intent.
C2_FixedOrder ==
  LET calls == RecoveryCalls
  IN /\ Len(calls) > 0 => calls[1].step = "spell"
     /\ \A j \in 1..Len(calls) : \A k \in (j + 1)..Len(calls) :
          /\ StateOf(calls[j].step) <= StateOf(calls[k].step)
          /\ calls[j].res # "hits"
     /\ \A k \in 1..Len(calls) :
          /\ calls[k].step = "category" => intent.type = "CATEGORY"
          /\ calls[k].step \in {"category", "bestsellers"} =>
               Cardinality(CallsOf("relax")) = RelaxationCalls(req.q)
          /\ (calls[k].step = "bestsellers" /\ intent.type = "CATEGORY") =>
               CallsOf("category") # {}
     /\ (Answered /\ Len(calls) > 0 /\ calls[Len(calls)].res = "hits") =>
          /\ recovery # None
          /\ recovery.fallbackType = FallbackOf(calls[Len(calls)].step)

\* The category state answered with a hit after the spell-correction and
\* the relaxation state had searched without one.
C2_Witness ==
  /\ Answered
  /\ Len(esCalls) = 5
  /\ esCalls[3].step = "rerun" /\ esCalls[3].res = "empty"
  /\ esCalls[4].step = "relax" /\ esCalls[4].res = "empty"
  /\ esCalls[5].step = "category" /\ esCalls[5].res = "hits"
  /\ recovery.fallbackType = "category_fallback"

\* The words of a text: its pieces between white space, none of them empty.
RECURSIVE NonEmpty(_)
NonEmpty(pieces) ==
  IF Len(pieces) = 0 THEN << >>
  ELSE (IF Head(pieces) = << >> THEN << >> ELSE <<Head(pieces)>>)
       \o NonEmpty(Tail(pieces))

WordsOf(text) == NonEmpty(split(text))

\* C3 (as the claim states it): the relaxation state searches the texts
\* made of the original text's words with the last 1, 2, ... dropped, in
\* that order; each of them is non-empty and has fewer words than the
\* original text; the search of the first with a hit ends the state, and
\* that text is relaxedQuery.
C3_RelaxationShrinks ==
  LET calls == RecoveryCalls
      first == IF CallsOf("relax") = {} THEN 0
               ELSE CHOOSE k \in CallsOf("relax") : \A j \in CallsOf("relax") : k <= j
  IN /\ \A k \in CallsOf("relax") :
          LET n == k - first + 1
              words == WordsOf(req.q)
          IN /\ calls[k].text # << >>
             /\ Len(WordsOf(calls[k].text)) < Len(words)
             /\ WordsOf(calls[k].text) = SubSeq(words, 1, Len(words) - n)
     /\ \A k \in CallsOf("relax") :
          (Answered /\ calls[k].res = "hits") =>
             /\ k = Len(calls)
             /\ recovery # None
             /\ recovery.relaxedQuery = calls[k].text

\* C4 (as the claim states it): an outcome whose fallbackType is not error
\* has at least one product.
C4_NonEmptyUnlessError ==
  (recovery # None /\ recovery # Thrown /\ recovery.fallbackType # "error") =>
     Len(recovery.products) > 0

\* C5 (as the claim states it): for an intent that is not CATEGORY, when
\* neither the spell-correction state nor any relaxation search had a hit,
\* recoverZeroResults returns fallbackType bestsellers and does not throw.
C5_EndsInBestsellers ==
  (/\ Answered
   /\ Len(RecoveryCalls) > 0
   /\ intent.type # "CATEGORY"
   /\ \A k \in CallsOf("rerun") \cup CallsOf("relax") :
        RecoveryCalls[k].res # "hits") =>
     /\ recovery # Thrown
     /\ recovery # None
     /\ recovery.fallbackType = "bestsellers"

\* recoverZeroResults has been entered.
InRecovery ==
  \/ pc \in {"spell", "rerun", "relax", "category", "bestsellers"}
  \/ Len(esCalls) > 1
  \/ recovery # None

\* C6: a failure of the primary search is surfaced.  When the primary
\* search of a request has failed, the handler has ended with the error of
\* that search, without entering recoverZeroResults; recoverZeroResults is
\* entered only after a primary search that succeeded with a total of 0;
\* and no step changes the cache for a request whose primary search failed.
C6_PrimaryFailureSurfaced ==
  /\ []((esCalls # << >> /\ esCalls[1].res = "fail") =>
          /\ pc = "idle"
          /\ response = ErrorResponse("primary")
          /\ ~InRecovery)
  /\ [](InRecovery =>
          /\ esCalls[1].res = "empty"
          /\ primary # None
          /\ primary.total = 0)
  /\ [][cache' # cache =>
          /\ pc = "setCachedSearch"
          /\ esCalls[1].res # "fail"]_vars

\* A second request ended with the error of its primary search, the cache
\* still holding what the first request wrote.
C6_Witness ==
  /\ Answered
  /\ requests = 2
  /\ esCalls # << >>
  /\ esCalls[1].res = "fail"
  /\ response = ErrorResponse("primary")
  /\ DOMAIN cache # {}

\* C7: the corrected text is searched only when the top suggestion has a
\* score above 0.5 and a text other than the original one, and it is that
\* text which is searched; an outcome has a didYouMean that is not null
\* exactly when its fallbackType is spell_correction, and it is then the
\* accepted suggestion's text.
C7_SpellAcceptance ==
  LET calls == RecoveryCalls
  IN /\ \A k \in CallsOf("rerun") :
          /\ k = 2
          /\ calls[1].step = "spell"
          /\ calls[1].res = "ok"
          /\ Len(calls[1].options) > 0
          /\ calls[1].options[1].score > SpellThreshold
          /\ calls[1].options[1].text # req.q
          /\ calls[k].text = calls[1].options[1].text
     /\ (recovery # None /\ recovery # Thrown) =>
          /\ recovery.didYouMean # Null <=> recovery.fallbackType = "spell_correction"
          /\ recovery.fallbackType = "spell_correction" =>
               /\ CallsOf("rerun") # {}
               /\ recovery.didYouMean = calls[1].options[1].text

\* The search of an accepted suggestion had a hit, and the outcome names
\* the suggestion.
C7_Witness ==
  /\ Answered
  /\ recovery # None /\ recovery # Thrown
  /\ recovery.fallbackType = "spell_correction"
  /\ recovery.didYouMean = <<"l","a","m","p","y">>
  /\ esCalls[2].options[1].score > SpellThreshold


(***************************************************************************)
(* The parameter extractor, the query builder and the ranking wrapper,     *)
(* called one after another                                                *)
(***************************************************************************)
\* Words and parameter tokens the texts are made of.
ParamPieces ==
  {<<"7","0","-","2","0","0","m","m">>, <<"f","/","2",".","8">>,
   <<"2","4","M","P">>, <<"7","7","m","m">>, <<"5","0"," ","m","m">>,
   <<"f","i","l","t","r">>, <<"f","f">>, <<"a","p","s","-","c">>,
   <<"4","k">>, <<"6","0"," ","f","p","s">>, <<"R","F">>,
   <<"a","p","a","r","a","t">>, <<"u","z.","y","w","a","n","y">>,
   <<"n","o","w","y">>, <<"l","p","-","e","6">>, <<"s","o","n","y"," ","a","7">>,
   <<"e","o","s"," ","r","6"," ","e","t","u","i">>, <<"x","x">>}

\* Tokens that follow a first piece.
ParamTails ==
  {<<"f","i","l","t","r">>, <<"f","f">>, <<"2","4","M","P">>, <<"5","0","m","m">>}

\* The texts of a request: q is a string of one character at least.
QueryTexts ==
  ParamPieces
  \cup {p \o <<" ">> \o t : p \in ParamPieces, t \in ParamTails}
  \cup {<<"7","0","-","2","0","0","m","m"," ","f","/","2",".","8"," ",
          "2","4","M","P">>,
        <<" ","f","/","2",".","8"," "," ">>}

\* Texts with a price phrase: with and without a number, with and without
\* a residual, with and without white space around them.
PriceTexts ==
  {<<"t","a","n","i">>, <<" ","t","a","n","i"," ">>,
   <<"x","x"," ","d","o"," ","5","0">>, <<"d","o"," ","5","0">>,
   <<"t","a","n","i","e"," ","x","x">>}

\* The arguments of extractParams and stripParams: the texts, the empty
\* text and null.
ParamTexts == QueryTexts \cup {<< >>, Null}

\* The filters of the requests.
QueryFilters == {EmptyObject, "brand" :> <<"S","o","n","y">>}

\* Intents a caller can hand to the query builder: COMPOUND with and
\* without a detected category, and the GENERAL intents of the recovery
\* cascade, without params and with params.
BuilderIntents(q) ==
  {[type |-> "COMPOUND", query |-> q,
    detectedCategory |-> <<"O","b","i","e","k","t","y","w","y">>,
    brand |-> <<"c","a","n","o","n">>, params |-> extractParams(q)],
   [type |-> "COMPOUND", query |-> q, brand |-> <<"c","a","n","o","n">>,
    params |-> extractParams(q)],
   [type |-> "COMPOUND", query |-> q],
   [type |-> "GENERAL", query |-> q],
   [type |-> "GENERAL", query |-> q, params |-> extractParams(q)]}

\* Texts the query builder is called with directly.
BuilderTexts ==
  {<<"a","p","a","r","a","t">>, <<"a","p","a","r","a","t"," ","f","f">>,
   <<"5","0"," ","m","m">>}

\* Intents the ranking wrapper is called with directly; None is no intent.
WrapperIntents ==
  {None}
  \cup {[type |-> "GENERAL", conditionPref |-> c, wantsAccessories |-> FALSE] :
          c \in {"used", "new", "null"}}
  \cup {[type |-> t, conditionPref |-> c, isBodyQuery |-> b, wantsAccessories |-> a] :
          t \in {"MODEL", "SKU"}, c \in {"used", "new", "null"},
          b \in BOOLEAN, a \in BOOLEAN}

\* The options of a first page sorted by relevance.
SearchOptions(fs) == [filters |-> fs, page |-> 1, perPage |-> 20, sort |-> "relevance"]

\* A call of op is made: req is the call, input, intent and filters are
\* its arguments.
OpCall(op, text, i, fs) ==
  /\ pc = "ready"
  /\ req' = [type |-> op]
  /\ input' = text
  /\ intent' = i
  /\ filters' = fs
  /\ output' = None
  /\ requests' = IF requests = 0 THEN 1 ELSE 2
  /\ esCalls' = << >>
  /\ UNCHANGED others
  /\ UNCHANGED <<lastIndex, primary, spell, drop, recovery, response, cache,
                 pinnedRules, blacklistedRules>>

\* A call that returned value, as opposed to one that threw (Thrown).
Returns(value) == [type |-> "returned", value |-> value]

\* The call returns result.
OpReturn(op, result) ==
  /\ pc = op
  /\ output' = Returns(result)
  /\ pc' = "ready"
  /\ UNCHANGED others
  /\ UNCHANGED <<lastIndex, input, req, filters, intent, esCalls, primary, spell,
                 drop, recovery, response, cache, requests, pinnedRules,
                 blacklistedRules>>

ExtractParamsCall(text) ==
  OpCall("extractParams", text, None, EmptyObject) /\ pc' = "extractParams"

ExtractParamsReturn == OpReturn("extractParams", extractParams(input))

StripParamsCall(text) ==
  OpCall("stripParams", text, None, EmptyObject) /\ pc' = "stripParams"

StripParamsReturn == OpReturn("stripParams", stripParams(input))

BuildSearchQueryCall(text, i) ==
  OpCall("buildSearchQuery", text, i, EmptyObject) /\ pc' = "buildSearchQuery"

BuildSearchQueryReturn ==
  OpReturn("buildSearchQuery",
         buildSearchQuery(input, intent, SearchOptions(filters)))

BuildAutocompleteQueryCall(text, i) ==
  OpCall("buildAutocompleteQuery", text, i, EmptyObject)
  /\ pc' = "buildAutocompleteQuery"

BuildAutocompleteQueryReturn ==
  OpReturn("buildAutocompleteQuery", buildAutocompleteQuery(input, intent, 5))

WrapCall(i) ==
  OpCall("wrapWithFunctionScore", << >>, i, EmptyObject)
  /\ pc' = "wrapWithFunctionScore"

WrapReturn == OpReturn("wrapWithFunctionScore", wrapWithFunctionScore(MatchAll, intent))

\* routes/search.js, lines 31-38: a request for q with filters arrives.
SearchRequest(q, fs) == OpCall("search", q, None, fs) /\ pc' = "search.classify"

\* Lines 47-52: the intent is classified and a PRICE intent sets price_max.
SearchClassify ==
  /\ pc = "search.classify"
  /\ LET c == classifyIntent(input, lastIndex)
     IN /\ intent' = c.intent
        /\ lastIndex' = c.li
        /\ filters' = WithPriceIntent(filters, c.intent)
  /\ pc' = "search.build"
  /\ UNCHANGED others
  /\ UNCHANGED <<input, output, req, esCalls, primary, spell, drop, recovery,
                 response, cache, requests, pinnedRules, blacklistedRules>>

\* Lines 55-63: the body is built and its query wrapped.
SearchBody(q, i, fs) ==
  Const(buildSearchQuery(q, i, SearchOptions(fs)), LAMBDA body :
    [body EXCEPT !.query = wrapWithFunctionScore(body.query, i)])

SearchBuild == OpReturn("search.build", SearchBody(input, intent, filters))

\* The largest sales_30d of a document.
MaxSales == 4

\* A document of the index: avg_rating and decay (the gauss decay of its
\* age) are in hundredths, category names the list the category is in.
Document(sales, availability, condition, category) ==
  [sales_30d |-> sales, availability |-> availability, condition |-> condition,
   category |-> category, sales_365d |-> 100, margin_pct |-> 10,
   is_promo |-> "false", has_image |-> "true", is_bestseller |-> "true",
   is_highlighted |-> "false", review_count |-> 4, avg_rating |-> 450,
   name_length |-> 20, decay |-> 50]

Documents ==
  {Document(sales, availability, condition, category) :
     sales \in 0..MaxSales, availability \in {"in_stock", "out_of_stock"},
     condition \in {"new", "used"},
     category \in {"BODY_PRODUCT_CATEGORIES", "ACCESSORY_CATEGORIES"}}

\* The relevance of the documents for the base query (2.0).
Relevance == 200

\* The wrapped query that has just been built is sent to the index, which
\* scores doc under it.
ScoreCall(doc) ==
  /\ pc = "ready" /\ req.type = "wrapWithFunctionScore"
  /\ esCalls' = <<output.value>>
  /\ input' = doc
  /\ req' = [type |-> "score"]
  /\ output' = None
  /\ pc' = "score"
  /\ UNCHANGED others
  /\ UNCHANGED <<lastIndex, filters, intent, primary, spell, drop, recovery,
                 response, cache, requests, pinnedRules, blacklistedRules>>

ScoreReturn ==
  /\ pc = "score"
  /\ output' = Returns(FunctionScore(esCalls[1], input, Relevance))
  /\ pc' = "ready"
  /\ UNCHANGED others
  /\ UNCHANGED <<lastIndex, input, req, filters, intent, esCalls, primary, spell,
                 drop, recovery, response, cache, requests, pinnedRules,
                 blacklistedRules>>

InitQuery == InitClassify

NextQuery ==
  \/ \E text \in ParamTexts : ExtractParamsCall(text)
  \/ ExtractParamsReturn
  \/ \E text \in ParamTexts : StripParamsCall(text)
  \/ StripParamsReturn
  \/ \E text \in BuilderTexts : \E i \in BuilderIntents(text) :
       BuildSearchQueryCall(text, i)
  \/ BuildSearchQueryReturn
  \/ \E text \in BuilderTexts : \E i \in BuilderIntents(text) :
       BuildAutocompleteQueryCall(text, i)
  \/ BuildAutocompleteQueryReturn
  \/ \E i \in WrapperIntents : WrapCall(i)
  \/ WrapReturn
  \/ \E q \in QueryTexts \cup PriceTexts, fs \in QueryFilters : SearchRequest(q, fs)
  \/ SearchClassify
  \/ SearchBuild
  \/ \E doc \in Documents : ScoreCall(doc)
  \/ ScoreReturn

SpecQuery == InitQuery /\ [][NextQuery]_vars

\* The call of op has returned.
Returned(op) == pc = "ready" /\ req.type = op

(***************************************************************************)
(* Properties of the parameter extractor                                   *)
(***************************************************************************)
\* input || ''
TextOf(text) == IF text = Null THEN << >> ELSE text

\* Extractor k contributes for q: its context, if it has one, is present
\* and its pattern matches.
Contributes(k, q) ==
  /\ ContextPresent(EXTRACTORS[k], q)
  /\ SearchFrom(EXTRACTORS[k].pattern, q, 1) # NoMatch

\* The fields extractor k writes for q.
Written(k, q) ==
  Extract(EXTRACTORS[k].name, q, SearchFrom(EXTRACTORS[k].pattern, q, 1))

\* C14: no extractor clears or overwrites another's output.  Whenever
\* extractParams has returned, every field written by an extractor whose
\* pattern matched the text is in the result with the value that extractor
\* wrote; so a focal range "A-Bmm" gives focal_length_min = A and
\* focal_length_max = B.
C14_NoExtractorOverwrites ==
  Returned("extractParams") =>
    \A k \in 1..Len(EXTRACTORS) :
      Contributes(k, TextOf(input)) =>
        \A field \in DOMAIN Written(k, TextOf(input)) :
          /\ field \in DOMAIN output.value
          /\ output.value[field] = Written(k, TextOf(input))[field]

\* The fields some contributing extractor writes for q.
ContributedFields(q) ==
  UNION {DOMAIN Written(k, q) : k \in {j \in 1..Len(EXTRACTORS) : Contributes(j, q)}}

\* The first "mm" token of q is a bare two-digit one: the focal_single and
\* the filter_diameter patterns match at the same place.
BareTwoDigitMm(q) ==
  /\ SearchFrom(RegExp(FilterDiameterSource, TRUE, FALSE), q, 1) # NoMatch
  /\ SearchFrom(RegExp(FilterDiameterSource, TRUE, FALSE), q, 1)
       = SearchFrom(RegExp(FocalSingleSource, TRUE, FALSE), q, 1)

\* NN of the first two-digit "NNmm" token of q.
TwoDigits(q) ==
  ParseDigits(q, SearchFrom(RegExp(FilterDiameterSource, TRUE, FALSE), q, 1).index, 0)

\* The filter context pattern matches q.
FilterContext(q) == SearchFrom(RegExp(FilterContextSource, TRUE, FALSE), q, 1) # NoMatch

\* C15: a rule contributes if and only if its pattern matches and its
\* context pattern, if it has one, matches the text, whatever the earlier
\* rules did.  Whenever extractParams has returned, the fields of the
\* result are exactly the fields of the contributing extractors; and for a
\* bare two-digit "NNmm" token filter_diameter = NN is written exactly
\* when the filter context matches, focal_length_min = focal_length_max =
\* NN with or without it.
C15_RuleContributesIffMatches ==
  Returned("extractParams") =>
    /\ DOMAIN output.value = ContributedFields(TextOf(input))
    /\ BareTwoDigitMm(TextOf(input)) =>
         /\ "params.filter_diameter" \in DOMAIN output.value
              <=> FilterContext(input)
         /\ FilterContext(input) =>
              output.value["params.filter_diameter"] = TwoDigits(input)
         /\ output.value["params.focal_length_min"] = TwoDigits(input)
         /\ output.value["params.focal_length_max"] = TwoDigits(input)

\* extractParams has returned for "77mm filtr": the context is present, and
\* the filter diameter and both focal lengths are 77.
C15_Witness ==
  /\ Returned("extractParams")
  /\ input = <<"7","7","m","m"," ","f","i","l","t","r">>
  /\ BareTwoDigitMm(input) /\ FilterContext(input)
  /\ output.value["params.filter_diameter"] = 77
  /\ output.value["params.focal_length_min"] = 77
  /\ output.value["params.focal_length_max"] = 77

\* C16: the residual of stripParams holds no parameter span.  Whenever
\* stripParams has returned, extractParams finds nothing in the residual
\* and stripping the residual again leaves it as it is; so the residual
\* of "70-200mm f/2.8 24MP" holds none of the three tokens.
C16_ResidualHasNoParams ==
  Returned("stripParams") =>
    /\ extractParams(output.value) = EmptyObject
    /\ stripParams(output.value) = output.value

(***************************************************************************)
(* Properties of the query builder and the ranking wrapper                 *)
(***************************************************************************)
\* The bool query of a search body, under its function_score.
BoolOf(body) == body.query.function_score.query.bool

\* The base query of a search body.
BaseQueryOf(body) == BoolOf(body).must[1]

\* The filters of a search body that come from extracted parameters.
ParamFiltersOf(body) ==
  {k \in 1..Len(BoolOf(body).filter) :
     \E j \in 1..Len(ParamFields) : BoolOf(body).filter[k].field = ParamFields[j]}

\* C17: a PARAMETRIC search is never an unconstrained match-all.  Whenever
\* the search body of a text classified PARAMETRIC has been built and its
\* base query is match_all, the body's filter list holds a filter that
\* comes from the extracted parameters.
C17_ParametricIsConstrained ==
  (Returned("search") /\ intent.type = "PARAMETRIC"
     /\ BaseQueryOf(output.value) = MatchAll)
  => ParamFiltersOf(output.value) # {}

\* A PARAMETRIC text with nothing left after stripping and no filter in the
\* request: the aperture filter is the only constraint of the search.
C17_Witness ==
  /\ Returned("search") /\ intent.type = "PARAMETRIC"
  /\ BaseQueryOf(output.value) = MatchAll
  /\ filters = EmptyObject
  /\ Len(BoolOf(output.value).filter) = 1
  /\ BoolOf(output.value).filter[1].field = "params.aperture"
  /\ BoolOf(output.value).filter[1].value = <<"f","/","2",".","8">>

\* C18: building a query for a COMPOUND intent without a detected category
\* fails.  Whenever buildSearchQuery or buildAutocompleteQuery has ended
\* for such an intent, it has thrown and returned no query.
C18_CompoundWithoutCategoryThrows ==
  ((Returned("buildSearchQuery") \/ Returned("buildAutocompleteQuery"))
     /\ intent.type = "COMPOUND" /\ "detectedCategory" \notin DOMAIN intent)
  => output = Thrown

\* C19: the GENERAL query of the search pipeline matches the text without
\* its parameter spans.  Whenever the search body of a text classified
\* GENERAL has been built, and the text holds a span that extractParams
\* extracts and stripParams removes (leaving some text), the text of the
\* base query is the text with the spans stripped.
C19_GeneralQueryStripped ==
  (Returned("search") /\ intent.type = "GENERAL"
     /\ DOMAIN extractParams(input) # {}
     /\ stripParams(input) # trim(input) /\ stripParams(input) # << >>)
  => BaseQueryOf(output.value).multi_match.query = stripParams(input)

\* The function of a function_score for the products whose field has value.
FunctionsFor(wrapped, field, value) ==
  {k \in 1..Len(wrapped.function_score.functions) :
     /\ "filter" \in DOMAIN wrapped.function_score.functions[k]
     /\ wrapped.function_score.functions[k].filter
          = [field |-> field, value |-> value]}

\* The weight, in hundredths, the function_score gives such products.
WeightFor(wrapped, field, value) ==
  wrapped.function_score.functions[
    CHOOSE k \in FunctionsFor(wrapped, field, value) : TRUE].weight

\* conditionPref of the intent the wrapper was called with; "null" when
\* there is no preference or no intent.
PrefOf(i) == IF "conditionPref" \in DOMAIN i THEN i.conditionPref ELSE "null"

\* C20: the condition weights.  Whenever wrapWithFunctionScore has
\* returned, there is one function for new products and one for used
\* products, and their weights (W_new, W_used) are (0.55, 1.8) for
\* conditionPref 'used', (1.5, 0.4) for 'new' and (1.3, 0.55) otherwise,
\* also without an intent; so W_new < W_used exactly for 'used' and W_new >
\* W_used in every other case.
C20_ConditionWeights ==
  Returned("wrapWithFunctionScore") =>
    /\ Cardinality(FunctionsFor(output.value, "condition", "new")) = 1
    /\ Cardinality(FunctionsFor(output.value, "condition", "used")) = 1
    /\ <<WeightFor(output.value, "condition", "new"),
         WeightFor(output.value, "condition", "used")>>
         = (IF PrefOf(intent) = "used" THEN <<55, 180>>
            ELSE IF PrefOf(intent) = "new" THEN <<150, 40>>
            ELSE <<130, 55>>)
    /\ WeightFor(output.value, "condition", "new")
         < WeightFor(output.value, "condition", "used")
       <=> PrefOf(intent) = "used"
    /\ PrefOf(intent) # "used" =>
         WeightFor(output.value, "condition", "new")
           > WeightFor(output.value, "condition", "used")

\* The wrapper has returned for an intent that prefers used products: the
\* weights are flipped.
C20_Witness ==
  /\ Returned("wrapWithFunctionScore")
  /\ PrefOf(intent) = "used"
  /\ WeightFor(output.value, "condition", "new") = 55
  /\ WeightFor(output.value, "condition", "used") = 180

\* The functions of a function_score, as a set.
FunctionSet(wrapped) ==
  {wrapped.function_score.functions[k] :
     k \in 1..Len(wrapped.function_score.functions)}

\* The functions with a filter on the category.
CategoryFunctions(wrapped) ==
  {f \in FunctionSet(wrapped) :
     "filter" \in DOMAIN f /\ f.filter.field = "category"}

\* Body categories x8.0, related lens categories x3.0, accessories x0.08.
BodyContextWeights ==
  {WeightWhen("category", "BODY_PRODUCT_CATEGORIES", 800),
   WeightWhen("category", "lenses", 300),
   WeightWhen("category", "ACCESSORY_CATEGORIES", 8)}

\* Accessory categories x5.0, body categories x0.1.
AccessoryContextWeights ==
  {WeightWhen("category", "ACCESSORY_CATEGORIES", 500),
   WeightWhen("category", "BODY_PRODUCT_CATEGORIES", 10)}

\* intent?.name === true
IsTrue(i, name) == name \in DOMAIN i /\ i[name] = TRUE

\* C21: the context functions of wrapWithFunctionScore.  Whenever the
\* wrapper has returned for an intent or none, its category functions are
\* the body-context weights if isBodyQuery is true, the accessory-context
\* weights if wantsAccessories is true and isBodyQuery is not, and none
\* otherwise (so never both groups); the SKU name-length function is
\* there exactly for a SKU intent; score_mode and boost_mode are multiply;
\* and the base query is embedded as it was given.
C21_ContextFunctions ==
  Returned("wrapWithFunctionScore") =>
    /\ CategoryFunctions(output.value)
         = (IF IsTrue(intent, "isBodyQuery") THEN BodyContextWeights
            ELSE IF IsTrue(intent, "wantsAccessories") THEN AccessoryContextWeights
            ELSE {})
    /\ [script_score |-> "name length"] \in FunctionSet(output.value)
         <=> intent.type = "SKU"
    /\ output.value.function_score.score_mode = "multiply"
    /\ output.value.function_score.boost_mode = "multiply"
    /\ output.value.function_score.query = MatchAll

\* The wrapper has returned for a MODEL intent that is a body query and
\* wants accessories as well: the body-context weights alone are there.
C21_Witness ==
  /\ Returned("wrapWithFunctionScore")
  /\ intent.type = "MODEL"
  /\ IsTrue(intent, "isBodyQuery") /\ IsTrue(intent, "wantsAccessories")
  /\ CategoryFunctions(output.value) = BodyContextWeights

\* doc with sales_30d set to sales.
WithSales(doc, sales) == [doc EXCEPT !["sales_30d"] = sales]

\* C22: the sales signal is monotone.  Whenever the index has scored a
\* document under a wrapped query, the same document with a strictly
\* greater sales_30d gets no lower score under the same query; and the
\* 30-day factor is 1 for sales_30d <= 0 and above 1 otherwise.
C22_SalesMonotone ==
  Returned("score") =>
    /\ \A sales \in 0..MaxSales :
         sales > input["sales_30d"] =>
           FunctionScore(esCalls[1], WithSales(input, sales), Relevance)
             >= output.value
    /\ Sales30Factor(input["sales_30d"]) = 100 <=> input["sales_30d"] <= 0
    /\ Sales30Factor(input["sales_30d"]) >= 100

\* A document with sales has been scored, and the same document with more
\* sales scores strictly higher.
C22_Witness ==
  /\ Returned("score")
  /\ input["sales_30d"] = 1
  /\ FunctionScore(esCalls[1], WithSales(input, MaxSales), Relevance) > output.value

\* The text left of a PRICE text when its price phrase is removed
\* (classifyIntent, line 346, on the trimmed text).
PriceResidual(q) == trim(replaceWithEmpty(PATTERNS_PRICE, trim(q)))

\* The filters of a search body that bound the price from above by max.
PriceFiltersOf(body, max) ==
  {k \in 1..Len(BoolOf(body).filter) :
     /\ BoolOf(body).filter[k].clause = "range"
     /\ BoolOf(body).filter[k].field = "price"
     /\ "lte" \in DOMAIN BoolOf(body).filter[k].range
     /\ BoolOf(body).filter[k].range["lte"] = max}

\* C24: a PRICE search is never an unconstrained match-all.  Whenever the
\* handler has built the search body of a text classified PRICE, the base
\* query is a text match on the non-empty residual of the text with its
\* price phrase removed, or the filter list bounds the price from above by
\* the parsed maximum.
C24_PriceIsConstrained ==
  (Returned("search") /\ intent.type = "PRICE") =>
    \/ /\ PriceResidual(input) # << >>
       /\ BaseQueryOf(output.value) = MultiMatch(PriceResidual(input), "NAME_FIELDS")
    \/ /\ intent.maxPrice # 0
       /\ PriceFiltersOf(output.value, intent.maxPrice) # {}

(***************************************************************************)
(* Properties of the search cache                                          *)
(***************************************************************************)
\* The key getCachedSearch looks up at the start of the request in hand:
\* line 41, with the filters of lines 32-38.
LookupKey == SearchKey(req.q, BuildFilters(req), req.sort, req.page)

\* The key setCachedSearch writes at the end of the request in hand: line
\* 105, with the filters object as it is by then.
WriteKey == SearchKey(req.q, filters, req.sort, req.page)

\* C25: the key written is the key looked up.  Whenever the handler is
\* about to call setCachedSearch, the key it writes the response under is
\* the key the same request's getCachedSearch looked up.
C25_WriteKeyIsLookupKey ==
  pc = "setCachedSearch" => WriteKey = LookupKey

\* C26: an error fallback is cached and served again.  In every step in
\* which setCachedSearch stores the response of a recovery that ended with
\* fallbackType error, the cache afterwards holds that response under the
\* key an identical request looks up.
C26_ErrorResponseServedAgain ==
  [][(/\ pc = "setCachedSearch"
      /\ response.fallback_type = "error"
      /\ cache' # cache)
     => (LookupKey \in DOMAIN cache' /\ cache'[LookupKey] = response)]_vars

(***************************************************************************)
(* The merchandising module: its rule files, their loading, and the        *)
(* readers of the tables                                                   *)
(***************************************************************************)
\* Contents of pinned.json; a file that cannot be read or parsed loads as
\* the empty table.
PinnedFiles ==
  {<< >>, <<[key |-> <<"x","x">>, ids |-> <<2>>]>>,
   <<[key |-> <<"x","x">>, ids |-> <<3, 1>>]>>}

\* Contents of blacklisted.json.
BlacklistedFiles == {<< >>, <<[key |-> <<"x","x">>, ids |-> <<1>>]>>}

\* Number of loads: the one on import and the calls of reloadRules.
MaxLoads == 2

\* Product lists without duplicate ids, as formatProducts returns them.
ProductLists ==
  {formatProducts([i \in 1..Len(ids) |-> [id |-> ids[i]]]) :
     ids \in {<< >>, <<2>>, <<1, 2>>, <<3, 2, 1>>}}

\* The allProductsById argument: the products with the given ids.
ProductsById(ids) == [id \in ids |-> [id |-> id, is_pinned |-> FALSE]]

\* The module is imported: its tables are empty and loadMerchandisingRules
\* has been called, not awaited.
InitMerch ==
  /\ lastIndex = FreshLastIndex
  /\ input = Null
  /\ output = None
  /\ pc = "load.pinned"
  /\ req = None
  /\ filters = << >>
  /\ intent = None
  /\ esCalls = << >>
  /\ primary = None
  /\ spell = Null
  /\ drop = 0
  /\ recovery = None
  /\ response = None
  /\ cache = << >>
  /\ requests = 1
  /\ pinnedRules = << >>
  /\ blacklistedRules = << >>
  /\ files \in [pinned : PinnedFiles, blacklisted : BlacklistedFiles]
  /\ loaded = [pinned |-> << >>, blacklisted |-> << >>]
  /\ client = None
  /\ cluster = None
  /\ searches = << >>
  /\ localStorage = << >>

\* Line 207: pinnedRules = await loadJsonFile(pinned.json).
LoadPinned ==
  /\ pc = "load.pinned"
  /\ pinnedRules' = files.pinned
  /\ pc' = "load.blacklisted"
  /\ UNCHANGED <<lastIndex, input, output, req, filters, intent, esCalls, primary,
                 spell, drop, recovery, response, cache, requests,
                 blacklistedRules, files, loaded, client, cluster, searches,
                 localStorage>>

\* Line 208: blacklistedRules = await loadJsonFile(blacklisted.json).
LoadBlacklisted ==
  /\ pc = "load.blacklisted"
  /\ blacklistedRules' = files.blacklisted
  /\ pc' = "ready"
  /\ UNCHANGED <<lastIndex, input, output, req, filters, intent, esCalls, primary,
                 spell, drop, recovery, response, cache, requests, pinnedRules,
                 files, loaded, client, cluster, searches, localStorage>>

\* An administrator writes both files while no load is in progress and
\* one is still to come.
WriteFiles(pinned, blacklisted) ==
  /\ pc = "ready"
  /\ requests < MaxLoads
  /\ files # [pinned |-> pinned, blacklisted |-> blacklisted]
  /\ files' = [pinned |-> pinned, blacklisted |-> blacklisted]
  /\ UNCHANGED <<lastIndex, input, output, pc, req, filters, intent, esCalls,
                 primary, spell, drop, recovery, response, cache, requests,
                 pinnedRules, blacklistedRules, loaded, client, cluster,
                 searches, localStorage>>

\* Lines 281-284: reloadRules is called; loaded keeps the tables in
\* service before it.
ReloadRules ==
  /\ pc = "ready"
  /\ requests < MaxLoads
  /\ requests' = requests + 1
  /\ loaded' = [pinned |-> pinnedRules, blacklisted |-> blacklistedRules]
  /\ pc' = "load.pinned"
  /\ UNCHANGED <<lastIndex, input, output, req, filters, intent, esCalls, primary,
                 spell, drop, recovery, response, cache, pinnedRules,
                 blacklistedRules, files, client, cluster, searches,
                 localStorage>>

\* A request handler calls applyMerchandising, whatever the loader is
\* doing; req keeps the two tables it read, the tables in service before
\* the last load began and the tables on disk.
ApplyMerchandising(products, query, allProductsById) ==
  /\ input' = [products |-> products, query |-> query,
               allProductsById |-> allProductsById]
  /\ req' = [type |-> "applyMerchandising", pinned |-> pinnedRules,
             blacklisted |-> blacklistedRules,
             reloading |-> requests > 1 /\ pc # "ready",
             before |-> loaded, after |-> files]
  /\ output' = Returns(applyMerchandising(products, query, allProductsById,
                                          pinnedRules, blacklistedRules))
  /\ UNCHANGED <<lastIndex, pc, filters, intent, esCalls, primary, spell, drop,
                 recovery, response, cache, requests, pinnedRules,
                 blacklistedRules, files, loaded, client, cluster, searches,
                 localStorage>>

NextMerch ==
  \/ LoadPinned
  \/ LoadBlacklisted
  \/ \E pinned \in PinnedFiles, blacklisted \in BlacklistedFiles :
       WriteFiles(pinned, blacklisted)
  \/ ReloadRules
  \/ \E products \in ProductLists, query \in {<<"x","x">>, <<"y","y">>},
        ids \in {{}, {2}, {1, 3}} :
       ApplyMerchandising(products, query, ProductsById(ids))

SpecMerch == InitMerch /\ [][NextMerch]_vars

\* applyMerchandising has returned.
Merchandised == req.type = "applyMerchandising"

\* The ids of a product list, in order.
IdsOf(products) == [i \in 1..Len(products) |-> products[i].id]

\* The products of a list that are flagged (flag TRUE) or not (FALSE).
RECURSIVE Flagged(_, _)
Flagged(products, flag) ==
  IF products = << >> THEN << >>
  ELSE (IF Head(products).is_pinned = flag THEN <<Head(products)>> ELSE << >>)
       \o Flagged(Tail(products), flag)

\* The ids of list that are in ids, in the order of list.
RECURSIVE Restrict(_, _)
Restrict(list, ids) ==
  IF list = << >> THEN << >>
  ELSE (IF Head(list) \in ids THEN <<Head(list)>> ELSE << >>)
       \o Restrict(Tail(list), ids)

\* C23: applyMerchandising.  Whenever it has returned for a product list
\* without duplicate ids: no product of the result is blacklisted for the
\* query; every pinned product that is not blacklisted and is in the input
\* list or in allProductsById is there exactly once and flagged; no id is
\* there twice; the flagged products come first, in the order of the pinned
\* rule; and the other products keep their input order.
C23_Merchandised ==
  Merchandised =>
    LET result == output.value
        blacklistedIds == Range(getBlacklistedProducts(blacklistedRules, input.query))
        pinnedIds == getPinnedProducts(pinnedRules, input.query)
        available == (Range(IdsOf(input.products)) \cup DOMAIN input.allProductsById)
                       \ blacklistedIds
    IN /\ Range(IdsOf(result)) \cap blacklistedIds = {}
       /\ \A pid \in Range(pinnedIds) \cap available :
            /\ Cardinality({i \in 1..Len(result) : result[i].id = pid}) = 1
            /\ \A i \in 1..Len(result) : result[i].id = pid => result[i].is_pinned
       /\ \A i, j \in 1..Len(result) : i # j => result[i].id # result[j].id
       /\ result = Flagged(result, TRUE) \o Flagged(result, FALSE)
       /\ IdsOf(Flagged(result, TRUE))
            = Restrict(pinnedIds, Range(IdsOf(Flagged(result, TRUE))))
       /\ IdsOf(Flagged(result, FALSE))
            = Restrict(IdsOf(input.products), Range(IdsOf(Flagged(result, FALSE))))

\* C28: readers see a consistent snapshot during reloadRules.  Whenever
\* applyMerchandising has run while reloadRules was in progress, the pinned
\* table and the blacklist table it read are both the tables in service
\* before the reload or both the tables the reload installs.
C28_ConsistentSnapshot ==
  (Merchandised /\ req.reloading) =>
    [pinned |-> req.pinned, blacklisted |-> req.blacklisted] \in {req.before, req.after}

(***************************************************************************)
(* The widget's input listener and the debounced API client                *)
(***************************************************************************)
\* What the user can have in the input after trim(): the empty text is
\* shorter than minChars.
InputTexts == {<< >>, <<"a">>, <<"a","b">>, <<"a","b","c">>}

\* options.minChars
MinChars == 1

\* The widget and its ApiClient are constructed: nothing typed, nothing
\* shown, the client cache empty, no timer and no request.  timer is the
\* query of the pending debounce timer, inflight the query of the request
\* that is neither answered nor aborted, shown the query whose results the
\* dropdown holds (the empty text when it holds none).
InitClient ==
  /\ lastIndex = FreshLastIndex
  /\ input = Null
  /\ output = None
  /\ pc = "ready"
  /\ req = None
  /\ filters = << >>
  /\ intent = None
  /\ esCalls = << >>
  /\ primary = None
  /\ spell = Null
  /\ drop = 0
  /\ recovery = None
  /\ response = None
  /\ cache = << >>
  /\ requests = 0
  /\ pinnedRules = << >>
  /\ blacklistedRules = << >>
  /\ files = None
  /\ loaded = None
  /\ client = [currentQuery |-> << >>, shown |-> << >>, cache |-> {},
               timer |-> Null, inflight |-> Null, failed |-> FALSE]
  /\ cluster = None
  /\ searches = << >>
  /\ localStorage = << >>

\* Everything but the client.
notClient ==
  <<lastIndex, input, output, pc, req, filters, intent, esCalls, primary, spell,
    drop, recovery, response, cache, requests, pinnedRules, blacklistedRules,
    files, loaded, cluster, searches, localStorage>>

\* fetchAutocomplete(query) up to its return, and for a cached query the
\* continuation of _fetchAutocomplete, which renders at once.
fetchAutocomplete(c, query) ==
  IF query \in c.cache
  THEN [c EXCEPT !.shown = query]
  ELSE [c EXCEPT !.timer = query, !.inflight = Null]

\* The input listener: sugester.js, lines 113-126.
InputEvent(q) ==
  /\ client' =
       Const([client EXCEPT !.currentQuery = q, !.failed = FALSE], LAMBDA c :
         IF Len(q) < MinChars THEN [c EXCEPT !.shown = << >>]
         ELSE fetchAutocomplete(c, q))
  /\ UNCHANGED notClient

\* The debounce timer fires: a new controller, and the request is sent.
TimerFires ==
  /\ client.timer # Null
  /\ client' = [client EXCEPT !.inflight = client.timer, !.timer = Null]
  /\ UNCHANGED notClient

\* The response of the request in flight arrives: with ok the data is
\* cached, the promise resolved and the dropdown rendered; otherwise the
\* promise is rejected and the dropdown left as it is.
ResponseArrives(ok) ==
  /\ client.inflight # Null
  /\ client' =
       IF ok
       THEN [client EXCEPT !.cache = client.cache \cup {client.inflight},
                           !.shown = client.inflight, !.inflight = Null]
       ELSE [client EXCEPT !.inflight = Null, !.failed = TRUE]
  /\ UNCHANGED notClient

NextClient ==
  \/ \E q \in InputTexts : InputEvent(q)
  \/ TimerFires
  \/ \E ok \in BOOLEAN : ResponseArrives(ok)

SpecClient == InitClient /\ [][NextClient]_vars

\* No timer and no request is pending.
Quiescent == client.timer = Null /\ client.inflight = Null

\* C27: the dropdown ends up with the newest query's results.  Whenever no
\* timer and no request is pending, the query typed last was handed to
\* fetchAutocomplete and the last request has not failed, the dropdown
\* shows the results of the query typed last.
C27_NewestQueryShown ==
  (Quiescent /\ ~client.failed /\ Len(client.currentQuery) >= MinChars)
  => client.shown = client.currentQuery

(***************************************************************************)
(* routes/admin/reindex.js: POST /admin/reindex                            *)
(***************************************************************************)
\* Calls of the handler in one behaviour.
MaxReindex == 2

\* Documents in the feed file.
FeedSize == 2

\* Index names are numbers: 0 is the index named INDEX_NAME itself, n > 0
\* the index INDEX_NAME-<timestamp n>.
DirectIndex == 0

\* The cluster without the index name.
DeleteIndex(indices, name) == [n \in DOMAIN indices \ {name} |-> indices[n]]

\* The cluster with the index name holding docs documents.
PutIndex(indices, name, docs) ==
  [n \in DOMAIN indices \cup {name} |-> IF n = name THEN docs ELSE indices[n]]

\* The indices a search on INDEX_NAME reaches: those behind the alias, or
\* the index of that name.
Resolve(c) ==
  IF c.alias # {} THEN c.alias
  ELSE IF DirectIndex \in DOMAIN c.indices THEN {DirectIndex} ELSE {}

\* Before the first call INDEX_NAME is an alias of one index with
\* documents, or an index with documents itself.  indices gives the
\* number of documents of each index there is, alias the indices behind
\* the alias, newIndex and oldIndices are the handler's variables.
InitReindex ==
  /\ lastIndex = FreshLastIndex
  /\ input = Null
  /\ output = None
  /\ pc = "idle"
  /\ req = None
  /\ filters = << >>
  /\ intent = None
  /\ esCalls = << >>
  /\ primary = None
  /\ spell = Null
  /\ drop = 0
  /\ recovery = None
  /\ response = None
  /\ cache = << >>
  /\ requests = 0
  /\ pinnedRules = << >>
  /\ blacklistedRules = << >>
  /\ files = None
  /\ loaded = None
  /\ client = None
  /\ cluster \in {[indices |-> PutIndex(<< >>, 1, FeedSize), alias |-> {1},
                   newIndex |-> 0, oldIndices |-> {}],
                  [indices |-> PutIndex(<< >>, DirectIndex, FeedSize), alias |-> {},
                   newIndex |-> 0, oldIndices |-> {}]}
  /\ searches = << >>
  /\ localStorage = << >>

\* Everything but the cluster and the handler's position.
notCluster ==
  <<lastIndex, input, output, req, filters, intent, esCalls, primary, spell, drop,
    recovery, response, cache, pinnedRules, blacklistedRules, files, loaded,
    client, searches, localStorage>>

\* An awaited call of the Elasticsearch client rejects: the handler throws
\* and the request ends.
CallFails ==
  /\ pc \in {"create", "bulk", "exists", "delete.direct", "updateAliases"}
  /\ pc' = "idle"
  /\ cluster' = [cluster EXCEPT !.newIndex = 0, !.oldIndices = {}]
  /\ UNCHANGED <<requests, notCluster>>

\* Lines 27-38: the handler is entered and names the new index.
Reindex ==
  /\ pc = "idle"
  /\ requests < MaxReindex
  /\ requests' = requests + 1
  /\ cluster' = [cluster EXCEPT !.newIndex = requests + 2, !.oldIndices = {}]
  /\ pc' = "create"
  /\ UNCHANGED notCluster

\* Lines 41-47: indices.create.
CreateIndex ==
  /\ pc = "create"
  /\ cluster' = [cluster EXCEPT !.indices = PutIndex(@, cluster.newIndex, 0)]
  /\ pc' = "bulk"
  /\ UNCHANGED <<requests, notCluster>>

\* Lines 50-64: the bulk import; items that fail are logged and no more.
Bulk(indexed) ==
  /\ pc = "bulk"
  /\ cluster' = [cluster EXCEPT !.indices = PutIndex(@, cluster.newIndex, indexed)]
  /\ pc' = "getAlias"
  /\ UNCHANGED <<requests, notCluster>>

\* Lines 68-73: indices.getAlias gives the indices behind the alias, or
\* throws when there is no such alias.
GetAlias ==
  /\ pc = "getAlias"
  /\ IF cluster.alias # {}
     THEN /\ cluster' = [cluster EXCEPT !.oldIndices = cluster.alias]
          /\ pc' = "updateAliases"
     ELSE /\ cluster' = cluster
          /\ pc' = "exists"
  /\ UNCHANGED <<requests, notCluster>>

\* Lines 74-75: indices.exists({ index: aliasName }).
Exists ==
  /\ pc = "exists"
  /\ pc' = IF DirectIndex \in DOMAIN cluster.indices THEN "delete.direct"
           ELSE "updateAliases"
  /\ UNCHANGED <<cluster, requests, notCluster>>

\* Line 77: the index named INDEX_NAME is deleted.
DeleteDirect ==
  /\ pc = "delete.direct"
  /\ cluster' = [cluster EXCEPT !.indices = DeleteIndex(@, DirectIndex)]
  /\ pc' = "updateAliases"
  /\ UNCHANGED <<requests, notCluster>>

\* Lines 82-89: one updateAliases request adds the new index and removes
\* the old ones.
UpdateAliases ==
  /\ pc = "updateAliases"
  /\ cluster' = [cluster EXCEPT
                   !.alias = (@ \cup {cluster.newIndex}) \ cluster.oldIndices]
  /\ pc' = "delete.old"
  /\ UNCHANGED <<requests, notCluster>>

\* Lines 92-105: the old indices are deleted (a failure is logged) and the
\* handler returns.
DeleteOld(deleted) ==
  /\ pc = "delete.old"
  /\ deleted \subseteq cluster.oldIndices
  /\ cluster' = [cluster EXCEPT
                   !.indices = [n \in DOMAIN @ \ deleted |-> @[n]],
                   !.newIndex = 0, !.oldIndices = {}]
  /\ pc' = "idle"
  /\ UNCHANGED <<requests, notCluster>>

NextReindex ==
  \/ Reindex
  \/ CreateIndex
  \/ \E indexed \in 0..FeedSize : Bulk(indexed)
  \/ GetAlias
  \/ Exists
  \/ DeleteDirect
  \/ UpdateAliases
  \/ \E deleted \in SUBSET (1..MaxReindex + 1) : DeleteOld(deleted)
  \/ CallFails

SpecReindex == InitReindex /\ [][NextReindex]_vars

\* C29: reindexing is zero-downtime.  At every moment, from the start of
\* the handler to its return and between its calls, INDEX_NAME resolves to
\* at least one index, and every index it resolves to exists.
C29_ZeroDowntime ==
  /\ Resolve(cluster) # {}
  /\ \A n \in Resolve(cluster) : n \in DOMAIN cluster.indices

(***************************************************************************)
(* recent-searches.js: the RecentSearches history                          *)
(***************************************************************************)
MAX_ITEMS == 5

\* setItem calls that throw in one behaviour.
MaxThrown == 1

\* An entry of the history; its timestamp, Date.now(), plays no part in
\* what the list holds or in its order.
Entry(q) == [query |-> q]

\* this.searches.filter((s) => s.query !== q)
RECURSIVE WithoutQuery(_, _)
WithoutQuery(list, q) ==
  IF list = << >> THEN << >>
  ELSE (IF Head(list).query # q THEN <<Head(list)>> ELSE << >>)
       \o WithoutQuery(Tail(list), q)

\* (query || '').trim()
TrimmedQuery(query) == trim(IF query = Null THEN << >> ELSE query)

\* add without the removal of the duplicate.
addKeepingDuplicates(list, query) ==
  Const(TrimmedQuery(query), LAMBDA q :
    IF q = << >> THEN list
    ELSE Const(<<Entry(q)>> \o list, LAMBDA longer :
           IF Len(longer) > MAX_ITEMS THEN SubSeq(longer, 1, MAX_ITEMS)
           ELSE longer))

\* this.searches after add(query): lines 17-33.
add(list, query) ==
  Const(TrimmedQuery(query), LAMBDA q :
    IF q = << >> THEN list
    ELSE Const(<<Entry(q)>> \o WithoutQuery(list, q), LAMBDA longer :
           IF Len(longer) > MAX_ITEMS THEN SubSeq(longer, 1, MAX_ITEMS)
           ELSE longer))

\* this.searches after remove(query): line 42.
remove(list, query) == WithoutQuery(list, query)

\* The arguments of add and remove.
HistoryTexts ==
  {<<"a">>, <<"b">>, <<"c">>, <<"d">>, <<"e">>, <<"f">>, <<" ","a"," ">>,
   << >>, <<" ">>, Null}

\* A RecentSearches is constructed with no item stored: the history is
\* empty.  localStorage.item is the list stored under STORAGE_KEY (empty
\* when there is none), localStorage.thrown counts the setItem calls that
\* threw.
InitRecent ==
  /\ lastIndex = FreshLastIndex
  /\ input = Null
  /\ output = None
  /\ pc = "ready"
  /\ req = None
  /\ filters = << >>
  /\ intent = None
  /\ esCalls = << >>
  /\ primary = None
  /\ spell = Null
  /\ drop = 0
  /\ recovery = None
  /\ response = None
  /\ cache = << >>
  /\ requests = 0
  /\ pinnedRules = << >>
  /\ blacklistedRules = << >>
  /\ files = None
  /\ loaded = None
  /\ client = None
  /\ cluster = None
  /\ searches = << >>
  /\ localStorage = [item |-> << >>, thrown |-> 0]

\* Everything but the history, its store and the record of the call.
notRecent ==
  <<lastIndex, input, output, pc, filters, intent, esCalls, primary, spell, drop,
    recovery, response, cache, requests, pinnedRules, blacklistedRules, files,
    loaded, client, cluster>>

\* _save() of list: setItem stores it, or throws and the catch swallows it.
Save(list, ok) ==
  /\ ~ok => localStorage.thrown < MaxThrown
  /\ localStorage' = IF ok THEN [localStorage EXCEPT !.item = list]
                     ELSE [localStorage EXCEPT !.thrown = @ + 1]

\* add(query); it returns before _save when the trimmed query is empty.
Add(query, ok) ==
  /\ searches' = add(searches, query)
  /\ IF TrimmedQuery(query) = << >>
     THEN ok /\ UNCHANGED localStorage
     ELSE Save(add(searches, query), ok)
  /\ req' = [type |-> "add", query |-> query,
             saved |-> ok /\ TrimmedQuery(query) # << >>]
  /\ UNCHANGED notRecent

\* remove(query)
Remove(query, ok) ==
  /\ searches' = remove(searches, query)
  /\ Save(remove(searches, query), ok)
  /\ req' = [type |-> "remove", query |-> query, saved |-> ok]
  /\ UNCHANGED notRecent

\* clear()
Clear(ok) ==
  /\ searches' = << >>
  /\ Save(<< >>, ok)
  /\ req' = [type |-> "clear", query |-> Null, saved |-> ok]
  /\ UNCHANGED notRecent

NextRecent ==
  \/ \E query \in HistoryTexts, ok \in BOOLEAN : Add(query, ok)
  \/ \E query \in HistoryTexts, ok \in BOOLEAN : Remove(query, ok)
  \/ \E ok \in BOOLEAN : Clear(ok)

SpecRecent == InitRecent /\ [][NextRecent]_vars

\* The queries of a history.
QueriesOf(list) == {list[i].query : i \in 1..Len(list)}

\* The place of query q in a history that holds it.
PlaceOf(list, q) == CHOOSE i \in 1..Len(list) : list[i].query = q

\* The history is well formed: at most MAX_ITEMS entries, no query twice,
\* every query non-empty and trimmed.
WellFormed(list) ==
  /\ Len(list) <= MAX_ITEMS
  /\ \A i, j \in 1..Len(list) : i # j => list[i].query # list[j].query
  /\ \A i \in 1..Len(list) : list[i].query # << >> /\ trim(list[i].query) = list[i].query

\* One operation keeps the history in the order of the adds: the queries
\* it keeps stay in their relative order, it brings in no query but the
\* one added, and that one stands first.
KeepsRecencyOrder ==
  /\ \A x, y \in QueriesOf(searches) \cap QueriesOf(searches') :
       (x # TrimmedQuery(req'.query) /\ y # TrimmedQuery(req'.query)) =>
         (PlaceOf(searches', x) < PlaceOf(searches', y)
            <=> PlaceOf(searches, x) < PlaceOf(searches, y))
  /\ IF req'.type = "add" /\ TrimmedQuery(req'.query) # << >>
     THEN /\ searches' # << >>
          /\ searches'[1].query = TrimmedQuery(req'.query)
          /\ QueriesOf(searches') \subseteq
               QueriesOf(searches) \cup {TrimmedQuery(req'.query)}
     ELSE QueriesOf(searches') \subseteq QueriesOf(searches)

=============================================================================
